---- MODULE Spec2Model ----
(***************************************************************************)
(* Model of the theory-core harmonic analysis engine (lib/theory-core).    *)
(*                                                                         *)
(* The engine is a set of pure functions over a key and a list of roman    *)
(* numerals.  A state holds the arguments of a call (key, romans), the     *)
(* operation last applied (op, with its extra argument arg) and what it    *)
(* returned (result).  Init draws the arguments, every action applies one  *)
(* operation of the engine to them.  The one array a module keeps between  *)
(* calls, the note table of the circle module, is held in circleTable, and *)
(* the array the caller got from getCircleOfFifthsNotes in handedOut.      *)
(*                                                                         *)
(* Text is modelled character by character: a string of the program is a   *)
(* sequence of one-character strings, so that includes(), startsWith(),    *)
(* the roman-numeral pattern of the tonal library and the formatting and   *)
(* re-parsing of chord names are computed as the code computes them.       *)
(* Tension values are kept exact, in sixtieths (1.0 is 60).                *)
(***************************************************************************)
EXTENDS Integers, Sequences, FiniteSets, TLC

VARIABLES key, romans, op, arg, result, circleTable, handedOut

vars == <<key, romans, op, arg, result, circleTable, handedOut>>

-----------------------------------------------------------------------------
(* Bounds *)

\* Longest progression handed to the engine.
MaxLen == 3

-----------------------------------------------------------------------------
(* Strings *)

MinOf(S) == CHOOSE x \in S : \A y \in S : x <= y

Abs(n) == IF n < 0 THEN -n ELSE n

\* String.prototype.includes for a single character.
Includes(s, c) == \E i \in 1..Len(s) : s[i] = c

\* String.prototype.startsWith.
StartsWith(s, p) == Len(p) <= Len(s) /\ SubSeq(s, 1, Len(p)) = p

\* Length of the run of characters of C in s that starts at position from.
RunLen(s, from, C) ==
    LET stops == {j \in from..Len(s) : s[j] \notin C}
    IN  IF stops = {} THEN Len(s) - from + 1 ELSE MinOf(stops) - from

\* n copies of character c.
Repeat(c, n) == [i \in 1..n |-> c]

-----------------------------------------------------------------------------
(* Roman numerals: RomanNumeral.get of the tonal library, as parseRoman    *)
(* calls it.                                                               *)

\* NAMES and NAMES_MINOR of the library, index 0..6 is position - 1.
NAMES == << <<"I">>, <<"I","I">>, <<"I","I","I">>, <<"I","V">>, <<"V">>,
            <<"V","I">>, <<"V","I","I">> >>
NAMES_MINOR == << <<"i">>, <<"i","i">>, <<"i","i","i">>, <<"i","v">>, <<"v">>,
                  <<"v","i">>, <<"v","i","i">> >>

RomanLetters == {"I", "V", "i", "v"}

\* The numeral group of the pattern: IV|I{1,3}|VI{0,2}|iv|i{1,3}|vi{0,2}.
IsNumeral(r) == \E k \in 1..7 : r = NAMES[k] \/ r = NAMES_MINOR[k]

\* The accidental group (#{1,}|b{1,}|x{1,}|): a run of one repeated sign.
AccLenOf(s) ==
    IF Len(s) = 0 THEN 0
    ELSE IF s[1] \in {"#", "b", "x"} THEN RunLen(s, 1, {s[1]})
    ELSE 0

\* tokenize: ^(acc)(numeral)([^IViv]*)$ . The rest may hold no numeral
\* letter, so the numeral is the whole run of numeral letters after the
\* accidentals. ok is FALSE when the pattern does not match.
RomanTokens(acc, roman, rest) ==
    IF IsNumeral(roman) /\ \A i \in 1..Len(rest) : rest[i] \notin RomanLetters
    THEN [ok |-> TRUE, acc |-> acc, roman |-> roman, chordType |-> rest]
    ELSE [ok |-> FALSE, acc |-> <<>>, roman |-> <<>>, chordType |-> <<>>]

\* The split of s after a accidentals and n numeral letters.
SplitRoman(s, a, n) ==
    RomanTokens(SubSeq(s, 1, a), SubSeq(s, a + 1, a + n), SubSeq(s, a + n + 1, Len(s)))

SplitRomanAfter(s, a) == SplitRoman(s, a, RunLen(s, a + 1, RomanLetters))

TokenizeRoman(s) == SplitRomanAfter(s, AccLenOf(s))

\* step = NAMES.indexOf(roman.toUpperCase()): 0 for I ... 6 for VII.
StepOf(roman) == (CHOOSE k \in 1..7 : roman = NAMES[k] \/ roman = NAMES_MINOR[k]) - 1

\* accToAlt: # is +1 each, x is +2 each, b is -1 each.
AccToAlt(acc) ==
    IF Len(acc) = 0 THEN 0
    ELSE IF acc[1] = "b" THEN -Len(acc)
    ELSE IF acc[1] = "x" THEN 2 * Len(acc)
    ELSE Len(acc)

\* RomanNumeral.get: the parsed numeral, empty when the pattern fails.
RomanFromTokens(t) ==
    IF ~t.ok
    THEN [empty |-> TRUE, roman |-> <<>>, acc |-> <<>>, chordType |-> <<>>,
          step |-> 0, alt |-> 0, major |-> FALSE]
    ELSE [empty |-> FALSE, roman |-> t.roman, acc |-> t.acc,
          chordType |-> t.chordType, step |-> StepOf(t.roman),
          alt |-> AccToAlt(t.acc),
          major |-> \E k \in 1..7 : t.roman = NAMES[k]]

RomanNumeralGet(s) == RomanFromTokens(TokenizeRoman(s))

\* parseRoman: null (isNull) when there is no numeral, else degree (the
\* library's step), quality (its chordType) and accidentals (its acc).
ParseResult(parsed) ==
    IF parsed.empty
    THEN [isNull |-> TRUE, degree |-> 0, quality |-> <<>>, accidentals |-> <<>>]
    ELSE [isNull |-> FALSE, degree |-> parsed.step,
          quality |-> parsed.chordType, accidentals |-> parsed.acc]

parseRoman(roman) == ParseResult(RomanNumeralGet(roman))

-----------------------------------------------------------------------------
(* Functional analysis *)

\* The switch on degree, the same in the major, the minor and the modal
\* branch of analyzeFunctionalLabel.
DegreeFunction(degree) ==
    CASE degree \in {1, 3, 6} -> "T"
      [] degree \in {2, 4} -> "SD"
      [] degree \in {5, 7} -> "D"
      [] OTHER -> "T"

\* analyzeFunctionalLabel once the numeral holds no "/" and is parsed.
LabelOfParsed(parsed, k) ==
    IF parsed.isNull THEN "T"
    ELSE IF k.mode = "major" THEN DegreeFunction(parsed.degree)
    ELSE IF k.mode = "minor" THEN DegreeFunction(parsed.degree)
    ELSE DegreeFunction(parsed.degree)

analyzeFunctionalLabel(roman, k) ==
    IF Includes(roman, "/") THEN "D" ELSE LabelOfParsed(parseRoman(roman), k)

-----------------------------------------------------------------------------
(* Cadence detection *)

HintPAC == "Perfect Authentic Cadence (V-I) - Strong resolution"
HintHalf == "Half Cadence - Ends on dominant (unresolved). Consider adding I to resolve."
HintPlagal == "Plagal Cadence (IV-I) - Amen cadence"
HintDeceptive == "Deceptive Cadence (V-vi) - Surprise resolution"
HintAuthentic == "Authentic Cadence - Dominant to Tonic resolution"
HintEndsSD == "Ends on subdominant - Consider V-I or I for stronger resolution"
HintWeak == "Weak cadence - Consider adding V before final I for stronger resolution"
HintTwoFiveOne == "Strong cadence with ii-V-I progression"

\* The perfect authentic test accepting only a major tonic.
IsPerfectAuthenticMajorOnly(penultimate, final) ==
    penultimate = <<"V">> /\ final = <<"I">>

\* The perfect authentic test of detectCadences.
IsPerfectAuthentic(penultimate, final) ==
    penultimate = <<"V">> /\ (final = <<"I">> \/ final = <<"i">>)

\* The checks of detectCadences on the last two chords, their functions
\* and, in the last check, the last three chords.
CadenceHints(rs, penultimate, final, penultimateFunc, finalFunc) ==
    IF IsPerfectAuthentic(penultimate, final) THEN <<HintPAC>>
    ELSE IF finalFunc = "D" /\ (Includes(final, "V") \/ Includes(final, "v"))
         THEN <<HintHalf>>
    ELSE IF penultimate = <<"I","V">> /\ final = <<"I">> THEN <<HintPlagal>>
    ELSE IF penultimate = <<"V">> /\ final = <<"v","i">> THEN <<HintDeceptive>>
    ELSE IF penultimateFunc = "D" /\ finalFunc = "T" THEN <<HintAuthentic>>
    ELSE (IF finalFunc = "SD" THEN <<HintEndsSD>> ELSE <<>>)
           \o (IF finalFunc = "T" /\ penultimateFunc = "T" THEN <<HintWeak>> ELSE <<>>)
           \o (IF Len(rs) >= 3 /\ rs[Len(rs) - 2] = <<"i","i">>
                  /\ rs[Len(rs) - 1] = <<"V">> /\ rs[Len(rs)] = <<"I">>
               THEN <<HintTwoFiveOne>> ELSE <<>>)

detectCadences(rs, k) ==
    IF Len(rs) < 2 THEN <<>>
    ELSE CadenceHints(rs, rs[Len(rs) - 1], rs[Len(rs)],
                      analyzeFunctionalLabel(rs[Len(rs) - 1], k),
                      analyzeFunctionalLabel(rs[Len(rs)], k))

-----------------------------------------------------------------------------
(* Tension curve, in sixtieths *)

\* 1.0, the ceiling of a tension value.
TensionOne == 60

\* No ceiling at all.
NoClampTension(t) == t

\* Math.min(tension, 1.0)
ClampTension(t) == IF t < TensionOne THEN t ELSE TensionOne

\* The base tension of a functional role: 0.1, 0.4, 0.7.
BaseTension(func) == CASE func = "T" -> 6 [] func = "SD" -> 24 [] func = "D" -> 42

\* Math.min(distanceFromTonic / 6, 0.3) for a parsed numeral, else nothing.
DistanceTension(parsed) ==
    IF parsed.isNull THEN 0
    ELSE IF 10 * Abs(parsed.degree - 1) < 18 THEN 10 * Abs(parsed.degree - 1)
    ELSE 18

\* The sum of calculateChordTension, func being the chord's function.
\* index is 0-based, allRomans 1-based: the next chord is at index + 2.
TensionSum(roman, index, allRomans, k, func) ==
    BaseTension(func)
      + (IF Includes(roman, "V") \/ Includes(roman, "v") THEN 12 ELSE 0)
      + (IF Includes(roman, "/") THEN 18 ELSE 0)
      + (IF Includes(roman, "b") \/ Includes(roman, "#") THEN 12 ELSE 0)
      + (IF Includes(roman, "°") \/ Includes(roman, "ø") \/ Includes(roman, "+")
         THEN 9 ELSE 0)
      + (IF index < Len(allRomans) - 1
            /\ func = "D"
            /\ analyzeFunctionalLabel(allRomans[index + 2], k) = "T"
         THEN 9 ELSE 0)
      + DistanceTension(parseRoman(roman))

calculateChordTension(roman, index, allRomans, k) ==
    ClampTension(TensionSum(roman, index, allRomans, k,
                            analyzeFunctionalLabel(roman, k)))

calculateTensionCurve(rs, k) ==
    [i \in 1..Len(rs) |->
        [bar |-> i - 1, value |-> calculateChordTension(rs[i], i - 1, rs, k)]]

-----------------------------------------------------------------------------
(* Chord origin classification *)

Dominant == <<"d","o","m","i","n","a","n","t">>
Unknown == <<"u","n","k","n","o","w","n">>

Origins == {"diatonic", "borrowed", "secondary", "chromatic-mediant", "custom"}

BORROWED_IN_MAJOR ==
    << <<"b","I","I","I">>, <<"b","V","I">>, <<"b","V","I","I">>, <<"i","v">>,
       <<"i","i","ø","7">>, <<"b","I","I">> >>

getDiatonicRomans(k) ==
    IF k.mode = "major"
    THEN { <<"I">>, <<"i","i">>, <<"i","i","i">>, <<"I","V">>, <<"V">>, <<"v","i">>,
           <<"v","i","i","°">>,
           <<"I","m","a","j","7">>, <<"i","i","7">>, <<"i","i","i","7">>,
           <<"I","V","m","a","j","7">>, <<"V","7">>, <<"v","i","7">>,
           <<"v","i","i","ø","7">> }
    ELSE IF k.mode = "minor" /\ k.minorVariant \in {"none", "natural"}
    THEN { <<"i">>, <<"i","i","°">>, <<"I","I","I">>, <<"i","v">>, <<"v">>, <<"V","I">>,
           <<"V","I","I">>,
           <<"i","7">>, <<"i","i","ø","7">>, <<"I","I","I","m","a","j","7">>,
           <<"i","v","7">>, <<"v","7">>, <<"V","I","m","a","j","7">>, <<"V","I","I","7">> }
    ELSE IF k.mode = "minor" /\ k.minorVariant = "harmonic"
    THEN { <<"i">>, <<"i","i","°">>, <<"I","I","I","+">>, <<"i","v">>, <<"V">>, <<"V","I">>,
           <<"v","i","i","°">>,
           <<"i","7">>, <<"i","i","ø","7">>, <<"I","I","I","+","m","a","j","7">>,
           <<"i","v","7">>, <<"V","7">>, <<"V","I","m","a","j","7">>,
           <<"v","i","i","°","7">> }
    ELSE { <<"I">>, <<"i","i">>, <<"i","i","i">>, <<"I","V">>, <<"V">>, <<"v","i">>,
           <<"v","i","i","°">> }

\* isChromaticMediant: mediantPatterns.some(pattern => roman.startsWith(pattern))
mediantPatterns ==
    << <<"b","I","I","I">>, <<"b","V","I">>, <<"#","I","I","I">>, <<"I","I","I">>,
       <<"V","I">> >>

isChromaticMediant(roman, k) ==
    \E j \in 1..Len(mediantPatterns) : StartsWith(roman, mediantPatterns[j])

\* BORROWED_IN_MAJOR.some(b => roman.startsWith(b))
IsBorrowedInMajor(roman) ==
    \E j \in 1..Len(BORROWED_IN_MAJOR) : StartsWith(roman, BORROWED_IN_MAJOR[j])

Classification(o, q) == [threw |-> FALSE, origin |-> o, quality |-> q]

\* A TypeError leaving the call.
Threw == [threw |-> TRUE, origin |-> "none", quality |-> <<>>]

\* The rules with the chromatic-mediant test ahead of the borrowed test.
ClassifyParsedMediantFirst(roman, k, parsed) ==
    IF roman \in getDiatonicRomans(k) THEN Classification("diatonic", parsed.quality)
    ELSE IF isChromaticMediant(roman, k)
         THEN Classification("chromatic-mediant", parsed.quality)
    ELSE IF k.mode = "major" /\ IsBorrowedInMajor(roman)
         THEN Classification("borrowed", parsed.quality)
    ELSE IF Len(parsed.accidentals) > 0 THEN Classification("borrowed", parsed.quality)
    ELSE Classification("diatonic", parsed.quality)

\* The rules with the accidental fallback tagged as its comment reads
\* ("likely custom") with a tag that is no OriginTag.
ClassifyParsedLikelyCustom(roman, k, parsed) ==
    IF roman \in getDiatonicRomans(k) THEN Classification("diatonic", parsed.quality)
    ELSE IF k.mode = "major" /\ IsBorrowedInMajor(roman)
         THEN Classification("borrowed", parsed.quality)
    ELSE IF isChromaticMediant(roman, k)
         THEN Classification("chromatic-mediant", parsed.quality)
    ELSE IF Len(parsed.accidentals) > 0 THEN Classification("likely-custom", parsed.quality)
    ELSE Classification("diatonic", parsed.quality)

\* classifyChord once the numeral is parsed and holds no "/".
ClassifyParsed(roman, k, parsed) ==
    IF roman \in getDiatonicRomans(k) THEN Classification("diatonic", parsed.quality)
    ELSE IF k.mode = "major" /\ IsBorrowedInMajor(roman)
         THEN Classification("borrowed", parsed.quality)
    ELSE IF isChromaticMediant(roman, k)
         THEN Classification("chromatic-mediant", parsed.quality)
    ELSE IF Len(parsed.accidentals) > 0 THEN Classification("borrowed", parsed.quality)
    ELSE Classification("diatonic", parsed.quality)

\* Without the null guard, destructuring the parse result throws.
ClassifyUnparsedNoGuard == Threw

\* What classifyChord returns for a numeral parseRoman rejects.
ClassifyUnparsed == Classification("custom", Unknown)

\* classifyChord, parsed being parseRoman(roman).
ClassifyWith(roman, k, parsed) ==
    IF Includes(roman, "/")
    THEN Classification("secondary",
             IF parsed.isNull \/ Len(parsed.quality) = 0 THEN Dominant
             ELSE parsed.quality)
    ELSE IF parsed.isNull THEN ClassifyUnparsed
    ELSE ClassifyParsed(roman, k, parsed)

classifyChord(roman, k) == ClassifyWith(roman, k, parseRoman(roman))

-----------------------------------------------------------------------------
(* Roman <-> absolute conversion: Progression.fromRomanNumerals and        *)
(* Progression.toRomanNumerals of the tonal library, as convert.ts calls   *)
(* them.  A pitch class is a letter step (C = 0 ... B = 6) and an          *)
(* alteration; the library adds and subtracts them as positions on the     *)
(* line of fifths.                                                         *)

NoteLetters == <<"C", "D", "E", "F", "G", "A", "B">>

\* FIFTHS of the library: the position of each natural step.
FIFTHS == <<0, 2, 4, -1, 1, 3, 5>>

\* FIFTHS_TO_STEPS of the library.
FIFTHS_TO_STEPS == <<3, 0, 4, 1, 5, 2, 6>>

\* encode of a pitch class: [fifths].
FifthsOf(step, alt) == FIFTHS[step + 1] + 7 * alt

\* decode of a pitch-class coordinate: the step and alteration.
DecodeFifths(f) ==
    [step |-> FIFTHS_TO_STEPS[((f + 1) % 7) + 1], alt |-> (f + 1) \div 7]

\* altToAcc: flats for a negative alteration, sharps for a positive one.
AltToAcc(alt) == IF alt < 0 THEN Repeat("b", -alt) ELSE Repeat("#", alt)

\* The note tokenizer on the start of a name: a letter, then a run of one
\* repeated accidental sign; rest is what follows (octave digits and type).
TokenizeNote(s) ==
    IF Len(s) = 0 \/ ~(\E l \in 1..7 : NoteLetters[l] = s[1])
    THEN [letter |-> <<>>, acc |-> <<>>, rest |-> s]
    ELSE LET a == IF Len(s) >= 2 /\ s[2] \in {"#", "b", "x"}
                  THEN RunLen(s, 2, {s[2]}) ELSE 0
         IN  [letter |-> <<s[1]>>, acc |-> SubSeq(s, 2, 1 + a),
              rest |-> SubSeq(s, 2 + a, Len(s))]

\* note(name) of a pitch-class name: empty unless the name is a letter and
\* accidentals only.
NoteGet(name) ==
    LET t == TokenizeNote(name)
    IN  IF Len(t.letter) = 0 \/ Len(t.rest) > 0
        THEN [empty |-> TRUE, step |-> 0, alt |-> 0]
        ELSE [empty |-> FALSE,
              step |-> (CHOOSE l \in 1..7 : NoteLetters[l] = t.letter[1]) - 1,
              alt |-> AccToAlt(t.acc)]

\* The name of the pitch class at position f on the line of fifths.
NoteName(f) ==
    LET p == DecodeFifths(f)
    IN  <<NoteLetters[p.step + 1]>> \o AltToAcc(p.alt)

\* Progression.fromRomanNumerals on one numeral:
\* transpose(tonic, interval(rn)) + rn.chordType. The numeral that does not
\* parse has no interval and an empty chord type: transpose gives "".
FromRomanNumeral(tonic, roman) ==
    LET rn == RomanNumeralGet(roman)
        note == NoteGet(tonic)
    IN  IF rn.empty \/ note.empty THEN <<>>
        ELSE NoteName(FifthsOf(note.step, note.alt) + FifthsOf(rn.step, rn.alt))
               \o rn.chordType

\* Chord.tokenize: the root (letter and accidentals) and the chord type.
TokenizeChord(chord) ==
    LET t == TokenizeNote(chord)
    IN  [note |-> t.letter \o t.acc, chordType |-> t.rest]

\* Progression.toRomanNumerals on one chord:
\* romanNumeral(interval(distance(tonic, note))).name + chordType. The
\* numeral is named from NAMES, in upper case, whatever the chord type.
ToRomanNumeral(tonic, chord) ==
    LET t == TokenizeChord(chord)
        from == NoteGet(tonic)
        to == NoteGet(t.note)
    IN  IF from.empty \/ to.empty THEN t.chordType
        ELSE LET ivl == DecodeFifths(FifthsOf(to.step, to.alt)
                                       - FifthsOf(from.step, from.alt))
             IN  AltToAcc(ivl.alt) \o NAMES[ivl.step + 1] \o t.chordType

\* romansToAbsolute dropping the entries that convert to "".
romansToAbsoluteDropEmpty(tonic, rs, enharmonicPolicy) ==
    SelectSeq([i \in 1..Len(rs) |-> FromRomanNumeral(tonic, rs[i])],
              LAMBDA c : Len(c) > 0)

\* romansToAbsolute: the library's map over the numerals; the policy is
\* not read.
romansToAbsolute(tonic, rs, enharmonicPolicy) ==
    [i \in 1..Len(rs) |-> FromRomanNumeral(tonic, rs[i])]

absoluteToRomans(tonic, chords) ==
    [i \in 1..Len(chords) |-> ToRomanNumeral(tonic, chords[i])]

-----------------------------------------------------------------------------
(* Module state of the circle module *)

CIRCLE_OF_FIFTHS_NOTES ==
    << <<"F">>, <<"C">>, <<"G">>, <<"D">>, <<"A">>, <<"E">>, <<"B">>,
       <<"F","#">>, <<"C","#">>, <<"G","#">>, <<"D","#">>, <<"A","#">> >>

\* No array has been handed to the caller yet.
NothingHandedOut == [shared |-> FALSE, notes |-> <<>>]

\* The module as it is once loaded.
ModuleLoaded ==
    /\ circleTable = CIRCLE_OF_FIFTHS_NOTES
    /\ handedOut = NothingHandedOut

-----------------------------------------------------------------------------
(* Arguments *)

Modes == {"major", "minor", "dorian", "phrygian", "lydian", "mixolydian",
          "aeolian", "locrian"}

\* minorVariant is optional ("none") and set by the callers only with
\* mode minor.
ModeVariants ==
    {<<m, "none">> : m \in Modes}
      \cup {<<"minor", v>> : v \in {"natural", "harmonic", "melodic"}}

KeysOn(tonics) ==
    {[tonic |-> t, mode |-> mv[1], minorVariant |-> mv[2]] :
        t \in tonics, mv \in ModeVariants}

\* rs is a progression of at most n chords over the numerals of R.
IsProgression(rs, R, n) == \E l \in 0..n : rs \in [1..l -> R]

\* Numerals of the progressions analysed: the chords the cadence rules
\* name, a secondary dominant, an altered and a borrowed chord, and text
\* that is no roman numeral.
ProgRomans ==
    { <<"I">>, <<"i">>, <<"i","i">>, <<"I","V">>, <<"V">>, <<"v">>,
      <<"v","i">>, <<"v","i","i","°">>, <<"b","V","I">>,
      <<"V","7","/","V">>, <<"X">> }

-----------------------------------------------------------------------------
(* Specification of progression analysis *)

Init ==
    /\ key \in KeysOn({<<"C">>})
    /\ IsProgression(romans, ProgRomans, MaxLen)
    /\ op = "none"
    /\ arg = 0
    /\ result = <<>>
    /\ ModuleLoaded

DetectCadences ==
    /\ op' = "detectCadences"
    /\ arg' = 0
    /\ result' = detectCadences(romans, key)
    /\ UNCHANGED <<key, romans, circleTable, handedOut>>

TensionCurve ==
    /\ op' = "tensionCurve"
    /\ arg' = 0
    /\ result' = calculateTensionCurve(romans, key)
    /\ UNCHANGED <<key, romans, circleTable, handedOut>>

Next == DetectCadences \/ TensionCurve

Spec == Init /\ [][Next]_vars

-----------------------------------------------------------------------------
(* Specification of the operations on one numeral *)

NumeralAccidentals == { <<>>, <<"b">>, <<"#">> }

\* The fourteen numerals and two runs of numeral letters that are none.
NumeralLetters ==
    {NAMES[n] : n \in 1..7} \cup {NAMES_MINOR[n] : n \in 1..7}
      \cup { <<"I","I","I","I">>, <<"V","I","V">> }

\* Chord types: those of the diatonic tables, a figured bass with a
\* slash, secondary targets, and "dim", which holds a numeral letter.
NumeralSuffixes ==
    { <<>>, <<"7">>, <<"m","a","j","7">>, <<"°">>, <<"°","7">>, <<"ø","7">>,
      <<"+">>, <<"+","m","a","j","7">>, <<"6","/","4">>, <<"/","V">>,
      <<"7","/","i","i">>, <<"d","i","m">> }

\* Text with no numeral in it.
NoNumerals == { <<>>, <<"X">>, <<"N","6">>, <<"X","/","Y">>, <<"b">> }

NumeralInputs ==
    {a \o n \o t : a \in NumeralAccidentals, n \in NumeralLetters, t \in NumeralSuffixes}
      \cup NoNumerals

InitNumeral ==
    /\ key \in KeysOn({<<"C">>, <<"F","#">>})
    /\ romans \in {<<r>> : r \in NumeralInputs}
    /\ op = "none"
    /\ arg = 0
    /\ result = <<>>
    /\ ModuleLoaded

LabelFunction ==
    \E i \in 1..Len(romans) :
        /\ op' = "labelFunction"
        /\ arg' = i
        /\ result' = analyzeFunctionalLabel(romans[i], key)
        /\ UNCHANGED <<key, romans, circleTable, handedOut>>

Classify ==
    \E i \in 1..Len(romans) :
        /\ op' = "classify"
        /\ arg' = i
        /\ result' = classifyChord(romans[i], key)
        /\ UNCHANGED <<key, romans, circleTable, handedOut>>

NextNumeral == LabelFunction \/ Classify

SpecNumeral == InitNumeral /\ [][NextNumeral]_vars

-----------------------------------------------------------------------------
(* Specification of the conversions *)

\* The tonics of the fifteen key signatures.
Tonics ==
    { <<"C">>, <<"G">>, <<"D">>, <<"A">>, <<"E">>, <<"B">>, <<"F","#">>, <<"C","#">>,
      <<"F">>, <<"B","b">>, <<"E","b">>, <<"A","b">>, <<"D","b">>, <<"G","b">>,
      <<"C","b">> }

EnharmonicPolicies == {"key-signature", "flat", "sharp"}

\* Numerals converted: diatonic triads and sevenths of the major and harmonic
\* minor tables, a borrowed chord, and an entry the library does not parse.
ConvertRomans ==
    { <<"I">>, <<"i","i">>, <<"V","7">>, <<"v","i","i","°">>, <<"b","V","I">>,
      <<"V","/","V">> }

\* Entries that are no roman numeral for the library.
Malformed == { <<"X">>, <<"V","/","V">>, <<>> }

InitConvert ==
    /\ key \in {k \in KeysOn(Tonics) :
                  k.mode = "major" \/ (k.mode = "minor" /\ k.minorVariant = "harmonic")}
    /\ IsProgression(romans, ConvertRomans, MaxLen)
    /\ op = "none"
    /\ arg = 0
    /\ result = <<>>
    /\ ModuleLoaded

RomansToAbsolute ==
    \E policy \in EnharmonicPolicies :
        /\ op' = "romansToAbsolute"
        /\ arg' = policy
        /\ result' = romansToAbsolute(key.tonic, romans, policy)
        /\ UNCHANGED <<key, romans, circleTable, handedOut>>

\* absoluteToRomans applied to what romansToAbsolute returns.
RoundTrip ==
    /\ op' = "roundTrip"
    /\ arg' = "key-signature"
    /\ result' = absoluteToRomans(key.tonic,
                     romansToAbsolute(key.tonic, romans, "key-signature"))
    /\ UNCHANGED <<key, romans, circleTable, handedOut>>

NextConvert == RomansToAbsolute \/ RoundTrip

SpecConvert == InitConvert /\ [][NextConvert]_vars

-----------------------------------------------------------------------------
(* Scales and keys of the tonal library, as palette.ts and the circle      *)
(* module call them.                                                       *)

\* The alterations of the seven intervals of each scale type of the
\* library's dictionary that a key names: 0 is the major or perfect
\* interval on the step, -1 the minor or diminished, 1 the augmented.
SCALE_TYPES ==
    [ n \in {"major", "minor", "aeolian", "dorian", "phrygian", "lydian",
             "mixolydian", "locrian", "harmonic minor", "melodic minor"} |->
        CASE n = "major"          -> <<0, 0, 0, 0, 0, 0, 0>>
          [] n = "lydian"         -> <<0, 0, 0, 1, 0, 0, 0>>
          [] n = "mixolydian"     -> <<0, 0, 0, 0, 0, 0, -1>>
          [] n = "dorian"         -> <<0, 0, -1, 0, 0, 0, -1>>
          [] n = "minor"          -> <<0, 0, -1, 0, 0, -1, -1>>
          [] n = "aeolian"        -> <<0, 0, -1, 0, 0, -1, -1>>
          [] n = "phrygian"       -> <<0, -1, -1, 0, 0, -1, -1>>
          [] n = "locrian"        -> <<0, -1, -1, 0, -1, -1, -1>>
          [] n = "harmonic minor" -> <<0, 0, -1, 0, 0, -1, 0>>
          [] n = "melodic minor"  -> <<0, 0, -1, 0, 0, 0, 0>> ]

\* transpose(tonic, interval) for the interval on step d - 1 altered by alt.
TransposeNote(note, d, alt) ==
    NoteName(FifthsOf(note.step, note.alt) + FifthsOf(d - 1, alt))

\* The notes of a scale: the tonic transposed by each interval of the type.
ScaleNotesOf(note, alts) == [d \in 1..7 |-> TransposeNote(note, d, alts[d])]

\* Scale.get(tonic + " " + type).notes: empty when the tonic is no note or
\* the type is not in the dictionary.
ScaleNotes(tonic, type) ==
    IF NoteGet(tonic).empty \/ type \notin DOMAIN SCALE_TYPES THEN <<>>
    ELSE ScaleNotesOf(NoteGet(tonic), SCALE_TYPES[type])

\* The scale type a key names: the mode, the minor mode taking its variant.
ScaleTypeOf(k) ==
    IF k.mode = "minor"
    THEN IF k.minorVariant = "harmonic" THEN "harmonic minor"
         ELSE IF k.minorVariant = "melodic" THEN "melodic minor"
         ELSE "minor"
    ELSE k.mode

getScaleForKey(k) == ScaleNotes(k.tonic, ScaleTypeOf(k))

\* SEMI of the library: the semitones of each natural step above C.
SEMI == <<0, 2, 4, 5, 7, 9, 11>>

\* The chroma of what is no note: undefined.
Undefined == -1

\* Note.chroma: the pitch class 0..11 of a note name.
ChromaOf(note) ==
    IF note.empty THEN Undefined ELSE (SEMI[note.step + 1] + note.alt + 120) % 12

\* Note.chroma taking the name that is no note for C.
NoteChromaOrC(name) == IF NoteGet(name).empty THEN 0 ELSE ChromaOf(NoteGet(name))

NoteChroma(name) == ChromaOf(NoteGet(name))

\* The semitones from one note up to another, within an octave.
SemitonesUp(from, to) == (NoteChroma(to) - NoteChroma(from) + 12) % 12

-----------------------------------------------------------------------------
(* Chord palette *)

\* The triad and seventh-chord types of the library's major key, by grade.
MAJOR_TRIADS ==
    << <<>>, <<"m">>, <<"m">>, <<>>, <<>>, <<"m">>, <<"d","i","m">> >>

MAJOR_CHORDS ==
    << <<"m","a","j","7">>, <<"m","7">>, <<"m","7">>, <<"m","a","j","7">>,
       <<"7">>, <<"m","7">>, <<"m","7","b","5">> >>

\* chord.includes('7') ? chord : chord + "maj7"
WithSeventh(chord) ==
    IF Includes(chord, "7") THEN chord ELSE chord \o <<"m","a","j","7">>

\* Key.majorKey(tonic).triads and .chords: each note of the major scale
\* followed by the chord type of its grade; none when the tonic is no note.
MajorKeyChords(tonic, types) ==
    IF NoteGet(tonic).empty THEN <<>>
    ELSE [d \in 1..7 |-> TransposeNote(NoteGet(tonic), d, 0) \o types[d]]

\* The name Chord.detect gives the chord in root position: the first alias
\* of the library's chord type with these semitones above the root. The
\* triads and sevenths stacked on the scales above are all in the
\* library's dictionary.
DetectedType(third, fifth, seventh) ==
    CASE third = 4 /\ fifth = 7 /\ seventh = Undefined -> <<"M">>
      [] third = 3 /\ fifth = 7 /\ seventh = Undefined -> <<"m">>
      [] third = 3 /\ fifth = 6 /\ seventh = Undefined -> <<"d","i","m">>
      [] third = 4 /\ fifth = 8 /\ seventh = Undefined -> <<"a","u","g">>
      [] third = 4 /\ fifth = 7 /\ seventh = 11 -> <<"m","a","j","7">>
      [] third = 4 /\ fifth = 7 /\ seventh = 10 -> <<"7">>
      [] third = 3 /\ fifth = 7 /\ seventh = 10 -> <<"m","7">>
      [] third = 3 /\ fifth = 7 /\ seventh = 11 -> <<"m","/","m","a","7">>
      [] third = 3 /\ fifth = 6 /\ seventh = 10 -> <<"m","7","b","5">>
      [] third = 3 /\ fifth = 6 /\ seventh = 9 -> <<"d","i","m","7">>
      [] third = 4 /\ fifth = 8 /\ seventh = 11 -> <<"m","a","j","7","#","5">>

\* detectChordName: the detected chord that starts with the root.
detectChordName(root, third, fifth, seventh, includeSevenths) ==
    root \o DetectedType(SemitonesUp(root, third), SemitonesUp(root, fifth),
                         IF includeSevenths THEN SemitonesUp(root, seventh)
                         ELSE Undefined)

\* buildDiatonicChords: thirds stacked on each degree of the scale.
buildDiatonicChords(scaleNotes, includeSevenths) ==
    [i \in 1..Len(scaleNotes) |->
        detectChordName(scaleNotes[i],
                        scaleNotes[((i + 1) % Len(scaleNotes)) + 1],
                        scaleNotes[((i + 3) % Len(scaleNotes)) + 1],
                        scaleNotes[((i + 5) % Len(scaleNotes)) + 1],
                        includeSevenths)]

\* buildPalette: the major key's chords of the library, else the chords
\* detected on the key's scale. Both are absolute chord names.
buildPalette(k, sevenths) ==
    IF k.mode = "major"
    THEN IF sevenths
         THEN [d \in DOMAIN MajorKeyChords(k.tonic, MAJOR_CHORDS) |->
                  WithSeventh(MajorKeyChords(k.tonic, MAJOR_CHORDS)[d])]
         ELSE MajorKeyChords(k.tonic, MAJOR_TRIADS)
    ELSE buildDiatonicChords(getScaleForKey(k), sevenths)
-----------------------------------------------------------------------------
(* Circle of fifths *)

MODE_OFFSETS ==
    [ m \in Modes |->
        CASE m = "lydian" -> 1
          [] m = "major" -> 0
          [] m = "mixolydian" -> -1
          [] m = "dorian" -> -2
          [] m = "minor" -> -3
          [] m = "aeolian" -> -3
          [] m = "phrygian" -> -4
          [] m = "locrian" -> -5 ]

\* MODE_OFFSETS[mode] || 0
ModeOffset(mode) == IF mode \in DOMAIN MODE_OFFSETS THEN MODE_OFFSETS[mode] ELSE 0

\* The test of findIndex: Note.chroma(n) === noteChroma.
SameChroma(n, note) == NoteChroma(n) = NoteChroma(note)

\* Array.prototype.findIndex over the table, counted from 0; -1 when no
\* entry passes the test.
FindIndex(table, note) ==
    IF \E i \in 1..Len(table) : SameChroma(table[i], note)
    THEN MinOf({i \in 1..Len(table) : SameChroma(table[i], note)}) - 1
    ELSE -1

\* position >= 0 ? position : 0
PositionOrZero(position) == IF position >= 0 THEN position ELSE 0

\* getNotePosition reading the table it is given.
getNotePositionIn(table, note) ==
    IF NoteChroma(note) = Undefined THEN 0
    ELSE PositionOrZero(FindIndex(table, note))

getNotePosition(note) == getNotePositionIn(CIRCLE_OF_FIFTHS_NOTES, note)

\* Note.get(name).pc: the letter and the accidentals of a note name, "" for
\* what is no note.
PitchClassName(name) ==
    IF NoteGet(name).empty THEN <<>>
    ELSE NoteName(FifthsOf(NoteGet(name).step, NoteGet(name).alt))

\* The module's second copy compares spellings in getNotePosition: its
\* test of findIndex is Note.get(n).pc === normalizedNote.
SamePitchClassName(n, note) == PitchClassName(n) = PitchClassName(note)

FindIndexByName(table, note) ==
    IF \E i \in 1..Len(table) : SamePitchClassName(table[i], note)
    THEN MinOf({i \in 1..Len(table) : SamePitchClassName(table[i], note)}) - 1
    ELSE -1

\* getNotePosition of the second copy.
getNotePositionByName(note) ==
    PositionOrZero(FindIndexByName(CIRCLE_OF_FIFTHS_NOTES, note))

\* The wrapping that only brings a position down.
RECURSIVE WrapDownOnly(_)
WrapDownOnly(position) ==
    IF position >= 12 THEN WrapDownOnly(position - 12) ELSE position

\* while (position < 0) position += 12; while (position >= 12) position -= 12
RECURSIVE WrapPosition(_)
WrapPosition(position) ==
    IF position < 0 THEN WrapPosition(position + 12)
    ELSE IF position >= 12 THEN WrapPosition(position - 12)
    ELSE position

\* getCirclePosition reading the table it is given.
getCirclePositionIn(table, tonic, mode) ==
    WrapPosition(getNotePositionIn(table, tonic) + ModeOffset(mode))

getCirclePosition(tonic, mode) ==
    getCirclePositionIn(CIRCLE_OF_FIFTHS_NOTES, tonic, mode)

\* getCirclePosition of the second copy.
getCirclePositionByName(tonic, mode) ==
    WrapPosition(getNotePositionByName(tonic) + ModeOffset(mode))

\* The tests of determineTriadQuality with the diminished triad left out.
TriadQualityNoDiminished(thirdInterval, fifthInterval) ==
    IF thirdInterval = 4 /\ fifthInterval = 7 THEN "major"
    ELSE IF thirdInterval = 3 /\ fifthInterval = 7 THEN "minor"
    ELSE IF thirdInterval = 4 /\ fifthInterval = 8 THEN "augmented"
    ELSE "major"

\* The tests of determineTriadQuality on the semitones of the third and
\* the fifth above the root; major when none applies.
TriadQualityOf(thirdInterval, fifthInterval) ==
    IF thirdInterval = 4 /\ fifthInterval = 7 THEN "major"
    ELSE IF thirdInterval = 3 /\ fifthInterval = 7 THEN "minor"
    ELSE IF thirdInterval = 3 /\ fifthInterval = 6 THEN "diminished"
    ELSE IF thirdInterval = 4 /\ fifthInterval = 8 THEN "augmented"
    ELSE "major"

determineTriadQuality(root, third, fifth) ==
    TriadQualityOf(SemitonesUp(root, third), SemitonesUp(root, fifth))

\* getChordQualities on the notes of the key's scale.
ChordQualitiesOf(notes) ==
    [d \in 1..Len(notes) |->
        [position |-> getNotePosition(notes[d]),
         quality |-> determineTriadQuality(notes[d], notes[((d + 1) % 7) + 1],
                                           notes[((d + 3) % 7) + 1])]]

getChordQualities(k) == ChordQualitiesOf(getScaleForKey(k))

\* getRomanNumeralsForKey: the numerals of the seven degrees.
getRomanNumeralsForKey(k) ==
    CASE k.mode = "major" ->
           << <<"I">>, <<"i","i">>, <<"i","i","i">>, <<"I","V">>, <<"V">>,
              <<"v","i">>, <<"v","i","i","°">> >>
      [] k.mode = "minor" /\ k.minorVariant = "harmonic" ->
           << <<"i">>, <<"i","i","°">>, <<"I","I","I","+">>, <<"i","v">>, <<"V">>,
              <<"V","I">>, <<"v","i","i","°">> >>
      [] k.mode = "minor" /\ k.minorVariant # "harmonic" ->
           << <<"i">>, <<"i","i","°">>, <<"I","I","I">>, <<"i","v">>, <<"v">>,
              <<"V","I">>, <<"V","I","I">> >>
      [] k.mode = "aeolian" ->
           << <<"i">>, <<"i","i","°">>, <<"I","I","I">>, <<"i","v">>, <<"v">>,
              <<"V","I">>, <<"V","I","I">> >>
      [] k.mode = "dorian" ->
           << <<"i">>, <<"i","i">>, <<"I","I","I">>, <<"I","V">>, <<"v">>,
              <<"v","i","°">>, <<"V","I","I">> >>
      [] k.mode = "phrygian" ->
           << <<"i">>, <<"I","I">>, <<"I","I","I">>, <<"i","v">>, <<"v","°">>,
              <<"V","I">>, <<"v","i","i">> >>
      [] k.mode = "lydian" ->
           << <<"I">>, <<"I","I">>, <<"i","i","i">>, <<"#","i","v","°">>, <<"V">>,
              <<"v","i">>, <<"v","i","i">> >>
      [] k.mode = "mixolydian" ->
           << <<"I">>, <<"i","i">>, <<"i","i","i","°">>, <<"I","V">>, <<"v">>,
              <<"v","i">>, <<"V","I","I">> >>
      [] k.mode = "locrian" ->
           << <<"i","°">>, <<"I","I">>, <<"i","i","i">>, <<"i","v">>, <<"V">>,
              <<"V","I">>, <<"v","i","i">> >>

\* getScaleDegrees on the notes of the key's scale and the key's numerals.
ScaleDegreesOf(notes, numerals) ==
    [d \in 1..Len(notes) |->
        [position |-> getNotePosition(notes[d]),
         roman |-> numerals[d],
         isTonic |-> d = 1]]

getScaleDegrees(k) == ScaleDegreesOf(getScaleForKey(k), getRomanNumeralsForKey(k))

\* getDiatonicNotes: the twelve notes of the circle, those whose chroma is
\* in the key's scale flagged diatonic.
DiatonicNotesOf(notes) ==
    [p \in 1..12 |->
        [note |-> CIRCLE_OF_FIFTHS_NOTES[p],
         position |-> p - 1,
         isDiatonic |-> \E d \in 1..Len(notes) :
                           NoteChroma(notes[d]) = NoteChroma(CIRCLE_OF_FIFTHS_NOTES[p])]]

getDiatonicNotes(k) == DiatonicNotesOf(getScaleForKey(k))

getCircleOfFifthsData(k) ==
    [notes |-> getDiatonicNotes(k),
     degrees |-> getScaleDegrees(k),
     chordQualities |-> getChordQualities(k),
     tonicPosition |-> getNotePosition(k.tonic)]

-----------------------------------------------------------------------------
(* Specifications of the operations on a key *)

\* Tonic spellings: the twelve of the circle, their flat twins, the
\* white-key twins Cb, Fb, E#, B#, a double sharp and a double flat, and
\* three spellings that are no note.
RecognisedSpellings ==
    { <<"F">>, <<"C">>, <<"G">>, <<"D">>, <<"A">>, <<"E">>, <<"B">>,
      <<"F","#">>, <<"C","#">>, <<"G","#">>, <<"D","#">>, <<"A","#">>,
      <<"G","b">>, <<"D","b">>, <<"A","b">>, <<"E","b">>, <<"B","b">>,
      <<"C","b">>, <<"F","b">>, <<"E","#">>, <<"B","#">>,
      <<"F","#","#">>, <<"B","b","b">> }

UnrecognisedSpellings == { <<"H">>, <<>>, <<"C","#","b">> }

InitKey ==
    /\ key \in KeysOn(RecognisedSpellings \cup UnrecognisedSpellings)
    /\ romans = <<>>
    /\ op = "none"
    /\ arg = 0
    /\ result = <<>>
    /\ ModuleLoaded

BuildPalette ==
    \E sevenths \in BOOLEAN :
        /\ op' = "buildPalette"
        /\ arg' = sevenths
        /\ result' = buildPalette(key, sevenths)
        /\ UNCHANGED <<key, romans, circleTable, handedOut>>

NextPalette == BuildPalette

SpecPalette == InitKey /\ [][NextPalette]_vars

GetCirclePosition ==
    /\ op' = "getCirclePosition"
    /\ arg' = key.mode
    /\ result' = getCirclePositionIn(circleTable, key.tonic, key.mode)
    /\ UNCHANGED <<key, romans, circleTable, handedOut>>

\* getCirclePosition of the module's second copy.
GetCirclePositionByName ==
    /\ op' = "getCirclePositionByName"
    /\ arg' = key.mode
    /\ result' = getCirclePositionByName(key.tonic, key.mode)
    /\ UNCHANGED <<key, romans, circleTable, handedOut>>

NextCircle == GetCirclePosition \/ GetCirclePositionByName

SpecCircle == InitKey /\ [][NextCircle]_vars

GetCircleOfFifthsData ==
    /\ op' = "getCircleOfFifthsData"
    /\ arg' = 0
    /\ result' = getCircleOfFifthsData(key)
    /\ UNCHANGED <<key, romans, circleTable, handedOut>>

NextCircleData == GetCircleOfFifthsData

SpecCircleData == InitKey /\ [][NextCircleData]_vars

-----------------------------------------------------------------------------
(* Key transitions: Interval.distance of the tonal library, as             *)
(* transition.ts calls it on two tonics, and planTransition.               *)

\* STEPS_TO_OCTS of the library: the octaves the fifths of each step span.
STEPS_TO_OCTS == <<0, 1, 2, -1, 0, 1, 2>>

DigitChars == <<"1", "2", "3", "4", "5", "6", "7", "8", "9">>

\* altToQ: the quality of an interval from its alteration; the steps of
\* the unison, the fourth and the fifth are perfectable, the others
\* majorable.
AltToQ(step, alt) ==
    IF alt = 0 THEN (IF step \in {0, 3, 4} THEN <<"P">> ELSE <<"M">>)
    ELSE IF alt = -1 /\ step \notin {0, 3, 4} THEN <<"m">>
    ELSE IF alt > 0 THEN Repeat("A", alt)
    ELSE Repeat("d", IF step \in {0, 3, 4} THEN -alt ELSE -alt - 1)

\* The number of an interval name: step + 1 + 7 * oct, the step's own
\* number when that is 0.
IntervalNum(step, oct) ==
    IF step + 1 + 7 * oct = 0 THEN step + 1 ELSE step + 1 + 7 * oct

\* The name of the interval f fifths up between two pitch classes: the
\* library takes -floor(f * 7 / 12) octaves with it, so that it ascends.
IntervalNameOf(f, p) ==
    <<DigitChars[IntervalNum(p.step,
                             -((f * 7) \div 12) + 4 * p.alt + STEPS_TO_OCTS[p.step + 1])]>>
      \o AltToQ(p.step, p.alt)

IntervalBetween(from, to) ==
    IntervalNameOf(FifthsOf(to.step, to.alt) - FifthsOf(from.step, from.alt),
                   DecodeFifths(FifthsOf(to.step, to.alt)
                                  - FifthsOf(from.step, from.alt)))

\* Interval.distance(from, to): "" when either name is no note.
IntervalDistance(from, to) ==
    IF NoteGet(from).empty \/ NoteGet(to).empty THEN <<>>
    ELSE IntervalBetween(NoteGet(from), NoteGet(to))

P5 == <<"5","P">>
P4 == <<"4","P">>
M2 == <<"2","M">>
Min3 == <<"3","m">>
M6 == <<"6","M">>

isRelativeKey(key1, key2) ==
    \/ /\ key1.mode = "major" /\ key2.mode = "minor"
       /\ IntervalDistance(key1.tonic, key2.tonic) \in {M6, Min3}
    \/ /\ key1.mode = "minor" /\ key2.mode = "major"
       /\ IntervalDistance(key1.tonic, key2.tonic) \in {Min3, M6}

\* The pivot sets of findPivotChords.
RelativePivots == << <<"v","i">>, <<"I","V">>, <<"i","i">> >>
ParallelPivots == << <<"I","/","i">>, <<"i","v","/","I","V">> >>

\* The switch of findPivotChords on the interval between the tonics.
IntervalPivots(interval) ==
    CASE interval = P5 -> << <<"V">>, <<"I">>, <<"v","i">> >>
      [] interval = P4 -> << <<"I","V">>, <<"I">>, <<"i","i">> >>
      [] interval = M2 -> << <<"V">>, <<"i","i">> >>
      [] interval = Min3 -> << <<"v","i">>, <<"i","i","i">> >>
      [] OTHER -> <<>>

findPivotChords(fromKey, toKey) ==
    IF isRelativeKey(fromKey, toKey) THEN RelativePivots
    ELSE IF fromKey.tonic = toKey.tonic /\ fromKey.mode # toKey.mode THEN ParallelPivots
    ELSE IntervalPivots(IntervalDistance(fromKey.tonic, toKey.tonic))

\* romanMap of getRelativeRoman.
romanMap(interval) ==
    CASE interval = <<"1","P">> -> <<"I">>
      [] interval = <<"2","M">> -> <<"I","I">>
      [] interval = <<"3","M">> -> <<"I","I","I">>
      [] interval = <<"4","P">> -> <<"I","V">>
      [] interval = <<"5","P">> -> <<"V">>
      [] interval = <<"6","M">> -> <<"V","I">>
      [] interval = <<"7","M">> -> <<"V","I","I">>
      [] OTHER -> <<>>

\* getRelativeRoman measuring from the target back to the source.
getRelativeRomanFromTarget(targetNote, sourceNote) ==
    IF romanMap(IntervalDistance(targetNote, sourceNote)) = <<>> THEN <<"I">>
    ELSE romanMap(IntervalDistance(targetNote, sourceNote))

\* getRelativeRoman: romanMap[interval] || 'I'
getRelativeRoman(targetNote, sourceNote) ==
    IF romanMap(IntervalDistance(sourceNote, targetNote)) = <<>> THEN <<"I">>
    ELSE romanMap(IntervalDistance(sourceNote, targetNote))

\* Every chord of the pivot set.
WholeSet(chords) == chords

\* chords.slice(0, 2)
FirstTwo(chords) == SubSeq(chords, 1, IF Len(chords) < 2 THEN Len(chords) ELSE 2)

\* The three plans. notes is the text of the template piece by piece, the
\* fixed text a piece of its own between the values filled in.
DirectPlan ==
    [type |-> "direct", chords |-> <<>>,
     notes |-> << <<"Already in the same key - no transition needed.">> >>]

PivotPlan(fromKey, toKey, pivotChords) ==
    [type |-> "pivot", chords |-> FirstTwo(pivotChords),
     notes |-> << <<"Pivot chord modulation via ">>, pivotChords[1],
                  <<". This chord exists in both ">>, fromKey.tonic, <<" ">>,
                  <<fromKey.mode>>, <<" and ">>, toKey.tonic, <<" ">>,
                  <<toKey.mode>>, <<".">> >>]

SecondaryPlan(toKey, secondaryDominant) ==
    [type |-> "secondary", chords |-> <<secondaryDominant>>,
     notes |-> << <<"Use secondary dominant ">>, secondaryDominant,
                  <<" to tonicize ">>, toKey.tonic,
                  <<". This creates a temporary dominant-tonic relationship.">> >>]

planTransition(fromKey, toKey) ==
    IF fromKey.tonic = toKey.tonic /\ fromKey.mode = toKey.mode THEN DirectPlan
    ELSE IF Len(findPivotChords(fromKey, toKey)) > 0
    THEN PivotPlan(fromKey, toKey, findPivotChords(fromKey, toKey))
    ELSE SecondaryPlan(toKey, <<"V","/">> \o getRelativeRoman(toKey.tonic, fromKey.tonic))

-----------------------------------------------------------------------------
(* Specification of key transitions *)

\* Tonics on every interval of the tables from C, the enharmonic twins
\* F#, Gb and D#, Eb, and a name that is no note.
TransitionTonics ==
    { <<"C">>, <<"G">>, <<"F">>, <<"D">>, <<"A">>, <<"E">>, <<"B">>,
      <<"E","b">>, <<"D","#">>, <<"F","#">>, <<"G","b">>, <<"H">> }

\* The keys planned between: major, minor (no variant and harmonic) and a
\* modal key on each tonic.
TransitionKeys ==
    {k \in KeysOn(TransitionTonics) :
        \/ k.mode \in {"major", "dorian"}
        \/ k.mode = "minor" /\ k.minorVariant \in {"none", "harmonic"}}

InitTransition ==
    /\ key \in TransitionKeys
    /\ romans = <<>>
    /\ op = "none"
    /\ arg = 0
    /\ result = <<>>
    /\ ModuleLoaded

\* planTransition from key to the key toKey, kept in arg.
PlanTransition ==
    \E toKey \in TransitionKeys :
        /\ op' = "planTransition"
        /\ arg' = toKey
        /\ result' = planTransition(key, toKey)
        /\ UNCHANGED <<key, romans, circleTable, handedOut>>

NextTransition == PlanTransition

SpecTransition == InitTransition /\ [][NextTransition]_vars

-----------------------------------------------------------------------------
(* Suggestions *)

\* The suggestions at the start of a progression.
SuggestStart(major) ==
    IF major THEN << <<"I">>, <<"I","V">>, <<"V">>, <<"v","i">> >>
    ELSE << <<"i">>, <<"i","v">>, <<"v">>, <<"V","I">> >>

\* The suggestions after a chord of function lastFunc; the last row is the
\* return that follows the three tests.
SuggestAfter(lastFunc, major) ==
    CASE lastFunc = "T" ->
           IF major THEN << <<"I","V">>, <<"i","i">>, <<"V">>, <<"v","i">> >>
           ELSE << <<"i","v">>, <<"i","i","°">>, <<"V">>, <<"V","I">> >>
      [] lastFunc = "SD" ->
           IF major THEN << <<"V">>, <<"I">>, <<"v","i">> >>
           ELSE << <<"V">>, <<"i">>, <<"V","I">> >>
      [] lastFunc = "D" ->
           IF major THEN << <<"I">>, <<"v","i">>, <<"I","V">> >>
           ELSE << <<"i">>, <<"V","I">>, <<"i","v">> >>
      [] OTHER ->
           IF major THEN << <<"I">>, <<"I","V">>, <<"V">>, <<"v","i">> >>
           ELSE << <<"i">>, <<"i","v">>, <<"V">>, <<"V","I">> >>

\* The first chord of the history in the place of the last.
FirstChord(ctxRomans) == ctxRomans[1]

\* ctxRomans[ctxRomans.length - 1]
LastChord(ctxRomans) == ctxRomans[Len(ctxRomans)]

\* suggestNext: style is not read.
suggestNext(ctxRomans, k, style) ==
    IF Len(ctxRomans) = 0 THEN SuggestStart(k.mode = "major")
    ELSE SuggestAfter(analyzeFunctionalLabel(LastChord(ctxRomans), k),
                      k.mode = "major")

-----------------------------------------------------------------------------
(* Specification of the suggestions *)

\* The optional style argument, "undefined" when it is left out.
Styles == {"undefined", "pop", "jazz", "folk"}

\* Chords of the history: one of each function the analysis returns, a
\* secondary dominant and text that is no numeral.
SuggestRomans ==
    { <<"I">>, <<"I","V">>, <<"V">>, <<"v","i">>, <<"V","/","V">>, <<"X">> }

SuggestTonics == { <<"C">>, <<"G","b">> }

SuggestKeys == {k \in KeysOn(SuggestTonics) : k.minorVariant = "none"}

InitSuggest ==
    /\ key \in SuggestKeys
    /\ IsProgression(romans, SuggestRomans, MaxLen)
    /\ op = "none"
    /\ arg = 0
    /\ result = <<>>
    /\ ModuleLoaded

SuggestNext ==
    \E style \in Styles :
        /\ op' = "suggestNext"
        /\ arg' = style
        /\ result' = suggestNext(romans, key, style)
        /\ UNCHANGED <<key, romans, circleTable, handedOut>>

NextSuggest == SuggestNext

SpecSuggest == InitSuggest /\ [][NextSuggest]_vars

-----------------------------------------------------------------------------
(* Specification of calls that share the note table *)

\* getCircleOfFifthsNotes handing out the table itself.
SameArray(table) == [shared |-> TRUE, notes |-> table]

\* getCircleOfFifthsNotes: [...CIRCLE_OF_FIFTHS_NOTES], a new array with the
\* entries of the table.
getCircleOfFifthsNotes(table) == [shared |-> FALSE, notes |-> table]

\* Entries of the array it holds that the caller overwrites, counted from 1,
\* and the names it writes there.
WrittenSlots == {1, 2}

WrittenNames == {<<"C">>, <<"X">>}

CallTonics == {<<"F">>, <<"C">>, <<"G">>, <<"G","b">>, <<"H">>}

InitCalls ==
    /\ key \in KeysOn(CallTonics)
    /\ romans = <<>>
    /\ op = "none"
    /\ arg = 0
    /\ result = <<>>
    /\ ModuleLoaded

GetCircleOfFifthsNotes ==
    /\ op' = "getCircleOfFifthsNotes"
    /\ arg' = 0
    /\ handedOut' = getCircleOfFifthsNotes(circleTable)
    /\ result' = handedOut'.notes
    /\ UNCHANGED <<key, romans, circleTable>>

\* The caller assigns to an entry of the array it was handed; an array that
\* is the table itself changes the table with it.
WriteHandedOut ==
    \E slot \in WrittenSlots, name \in WrittenNames :
        /\ slot <= Len(handedOut.notes)
        /\ op' = "write"
        /\ arg' = slot
        /\ handedOut' = [handedOut EXCEPT !.notes[slot] = name]
        /\ circleTable' = IF handedOut.shared
                          THEN [circleTable EXCEPT ![slot] = name]
                          ELSE circleTable
        /\ UNCHANGED <<key, romans, result>>

NextCalls == GetCircleOfFifthsNotes \/ WriteHandedOut \/ GetCirclePosition

SpecCalls == InitCalls /\ [][NextCalls]_vars

-----------------------------------------------------------------------------
(* Extended harmonies: extendedRomanToAbsolute *)

\* The pattern ^([b#]?)([ivIV]+)(.*)$ on a numeral: the optional sign, the
\* longest run of numeral letters, and what follows; no match when the run
\* is empty.
ExtendedRomanMatch(roman) ==
    LET a == IF Len(roman) >= 1 /\ roman[1] \in {"b", "#"} THEN 1 ELSE 0
        n == RunLen(roman, a + 1, RomanLetters)
    IN  [matched |-> n >= 1,
         accidental |-> SubSeq(roman, 1, a),
         numeralPart |-> SubSeq(roman, a + 1, a + n),
         extension |-> SubSeq(roman, a + n + 1, Len(roman))]

\* String.prototype.toLowerCase and toUpperCase on numeral letters.
ToLowerCase(s) ==
    [i \in 1..Len(s) |-> IF s[i] = "I" THEN "i" ELSE IF s[i] = "V" THEN "v" ELSE s[i]]

ToUpperCase(s) ==
    [i \in 1..Len(s) |-> IF s[i] = "i" THEN "I" ELSE IF s[i] = "v" THEN "V" ELSE s[i]]

\* romanMap[numeralPart.toLowerCase()]: the degree 1..7, 0 for undefined.
ExtendedDegree(numeralPart) ==
    LET lower == ToLowerCase(numeralPart)
    IN  IF \E k \in 1..7 : NAMES_MINOR[k] = lower
        THEN CHOOSE k \in 1..7 : NAMES_MINOR[k] = lower
        ELSE 0

\* Chord.get(tonic + " major").notes: the chord named major on the tonic,
\* its root, major third and fifth; empty when the tonic is no note.
MajorChordNotes(tonic) ==
    IF NoteGet(tonic).empty THEN <<>>
    ELSE << TransposeNote(NoteGet(tonic), 1, 0),
            TransposeNote(NoteGet(tonic), 3, 0),
            TransposeNote(NoteGet(tonic), 5, 0) >>

\* What a template literal prints for a missing array entry.
UndefinedText == <<"u","n","d","e","f","i","n","e","d">>

\* The interval pattern of the library on a name made of a sign and digits
\* with or without a quality letter: an interval needs its quality.
IntervalParses(ivl) ==
    \E i \in 1..Len(ivl) : ivl[i] \in {"d", "m", "M", "P", "A"}

\* Note.transpose(note, interval): "" when the interval is no interval.
\* Only the two intervals extendedRomanToAbsolute passes are modelled.
NoteTranspose(note, ivl) ==
    CASE ~IntervalParses(ivl) -> <<>>

\* scale[degree - 1]: the entry of the array, undefined past its end.
DegreeOfNotes(notes, degree) ==
    IF degree <= Len(notes) THEN notes[degree] ELSE UndefinedText

\* The result of a call that returns a chord symbol or throws.
Returned(chord) == [threw |-> FALSE, chord |-> chord]

ThrewError == [threw |-> TRUE, chord |-> <<>>]

extendedRomanToAbsolute(roman, tonic) ==
    LET match == ExtendedRomanMatch(roman)
        degree == ExtendedDegree(match.numeralPart)
        scale == MajorChordNotes(tonic)
        rootNote == DegreeOfNotes(scale, degree)
        isUpperCase == match.numeralPart = ToUpperCase(match.numeralPart)
        baseQuality == IF isUpperCase THEN <<>> ELSE <<"m">>
    IN  IF ~match.matched THEN ThrewError
        ELSE IF degree = 0 THEN ThrewError
        ELSE IF match.accidental = <<"b">>
             THEN Returned(NoteTranspose(rootNote, <<"-","1">>) \o baseQuality \o match.extension)
        ELSE IF match.accidental = <<"#">>
             THEN Returned(NoteTranspose(rootNote, <<"1">>) \o baseQuality \o match.extension)
        ELSE Returned(rootNote \o baseQuality \o match.extension)

-----------------------------------------------------------------------------
(* Specification of extendedRomanToAbsolute *)

ExtendedAccidentals == {<<>>, <<"b">>, <<"#">>}

\* The numerals I..VII in both cases, and text outside them.
ExtendedNumerals ==
    {NAMES[k] : k \in 1..7} \cup {NAMES_MINOR[k] : k \in 1..7}
      \cup {<<"V","I","I","I">>, <<"I","I","I","I">>, <<"X">>, <<>>}

ExtendedSuffixes == {<<>>, <<"7">>, <<"m","a","j","9">>}

ExtendedTonics == Tonics \cup {<<"H">>}

InitExtendedRoman ==
    /\ key \in {k \in KeysOn(ExtendedTonics) : k.mode = "major"}
    /\ romans \in {<<a \o n \o x>> :
                     a \in ExtendedAccidentals, n \in ExtendedNumerals,
                     x \in ExtendedSuffixes}
    /\ op = "none"
    /\ arg = 0
    /\ result = Returned(<<>>)
    /\ ModuleLoaded

ExtendedRomanToAbsolute ==
    /\ op' = "extendedRomanToAbsolute"
    /\ arg' = 0
    /\ result' = extendedRomanToAbsolute(romans[1], key.tonic)
    /\ UNCHANGED <<key, romans, circleTable, handedOut>>

NextExtendedRoman == ExtendedRomanToAbsolute

SpecExtendedRoman == InitExtendedRoman /\ [][NextExtendedRoman]_vars

-----------------------------------------------------------------------------
(* Extended harmonies: getChordVoicings *)

\* The chord types of the library's dictionary the voicings are asked for,
\* by the name that follows the root: the intervals above the root, each a
\* scale step (1..7, the ninth and thirteenth folded into the octave) and an
\* alteration.
CHORD_TYPES ==
    [ t \in { <<>>, <<"m">>, <<"5">>, <<"d","i","m">>, <<"7">>, <<"m","a","j","7">>,
              <<"9">>, <<"1","3">> } |->
        CASE t = <<>> -> << <<1, 0>>, <<3, 0>>, <<5, 0>> >>
          [] t = <<"m">> -> << <<1, 0>>, <<3, -1>>, <<5, 0>> >>
          [] t = <<"5">> -> << <<1, 0>>, <<5, 0>> >>
          [] t = <<"d","i","m">> -> << <<1, 0>>, <<3, -1>>, <<5, -1>> >>
          [] t = <<"7">> -> << <<1, 0>>, <<3, 0>>, <<5, 0>>, <<7, -1>> >>
          [] t = <<"m","a","j","7">> -> << <<1, 0>>, <<3, 0>>, <<5, 0>>, <<7, 0>> >>
          [] t = <<"9">> -> << <<1, 0>>, <<3, 0>>, <<5, 0>>, <<7, -1>>, <<2, 0>> >>
          [] t = <<"1","3">> ->
               << <<1, 0>>, <<3, 0>>, <<5, 0>>, <<7, -1>>, <<2, 0>>, <<6, 0>> >> ]

\* Chord.get(symbol): the tonic and the notes; no tonic and no notes when
\* the root is no note or the type is not in the dictionary.
ChordGet(symbol) ==
    LET t == TokenizeChord(symbol)
    IN  IF NoteGet(t.note).empty \/ t.chordType \notin DOMAIN CHORD_TYPES
        THEN [tonic |-> <<>>, notes |-> <<>>]
        ELSE [tonic |-> t.note,
              notes |-> [i \in 1..Len(CHORD_TYPES[t.chordType]) |->
                           TransposeNote(NoteGet(t.note),
                                         CHORD_TYPES[t.chordType][i][1],
                                         CHORD_TYPES[t.chordType][i][2])]]

\* A number of one or two digits as the template literal prints it.
DecimalDigits == <<"0", "1", "2", "3", "4", "5", "6", "7", "8", "9">>

NumberText(n) ==
    IF n < 10 THEN <<DecimalDigits[n + 1]>>
    ELSE <<DecimalDigits[(n \div 10) + 1], DecimalDigits[(n % 10) + 1]>>

\* getInversionName: names[index] || `${index}th`.
InversionNames == <<"Root", "First", "Second", "Third", "Fourth", "Fifth">>

getInversionName(index, totalNotes) ==
    IF index + 1 <= Len(InversionNames) THEN InversionNames[index + 1]
    ELSE ToString(index) \o "th"

\* baseNotes.map((n, i) => `${n}${octaveRange[0] + Math.floor(i / 7)}`)
RootPosition(baseNotes, octaveRange) ==
    [name |-> "Root position",
     notes |-> [i \in 1..Len(baseNotes) |->
                  baseNotes[i] \o NumberText(octaveRange[1] + ((i - 1) \div 7))]]

\* Inversion i: the notes from index i on, then the notes before it, each
\* with the octave octaveRange[0] + Math.floor((i + idx) / 7).
Inversion(baseNotes, octaveRange, i) ==
    [name |-> getInversionName(i, Len(baseNotes)) \o " inversion",
     notes |-> [j \in 1..Len(baseNotes) |->
                  baseNotes[((i + j - 1) % Len(baseNotes)) + 1]
                    \o NumberText(octaveRange[1] + ((i + j - 1) \div 7))]]

\* The test that adds the inversions, taken without the limit on the
\* number of notes.
WantsInversions(inversions, baseNotes) == inversions

\* inversions && baseNotes.length > 2
AddsInversions(inversions, baseNotes) == inversions /\ Len(baseNotes) > 2

\* getChordVoicings: throws when the chord has no tonic; the octave range
\* is used as given.
getChordVoicings(symbol, inversions, octaveRange) ==
    IF ChordGet(symbol).tonic = <<>> THEN [threw |-> TRUE, voicings |-> <<>>]
    ELSE [threw |-> FALSE,
          voicings |->
            <<RootPosition(ChordGet(symbol).notes, octaveRange)>>
              \o IF AddsInversions(inversions, ChordGet(symbol).notes)
                 THEN [i \in 1..(Len(ChordGet(symbol).notes) - 1) |->
                         Inversion(ChordGet(symbol).notes, octaveRange, i)]
                 ELSE <<>>]

-----------------------------------------------------------------------------
(* Specification of getChordVoicings *)

\* Chord symbols: roots with the types of CHORD_TYPES, a type that is in no
\* dictionary, a type without a root and a root that is no note.
VoicingRoots == {<<"C">>, <<"F","#">>, <<"B","b">>, <<"H">>, <<>>}

VoicingTypes == DOMAIN CHORD_TYPES \cup {<<"x","y","z">>}

\* Octave ranges: the default, the ranges of the tests, a one-octave range.
OctaveRanges == {<<3, 5>>, <<4, 5>>, <<10, 5>>, <<5, 5>>}

InitVoicings ==
    /\ key \in {k \in KeysOn({<<"C">>}) : k.mode = "major"}
    /\ romans \in {<<r \o t>> : r \in VoicingRoots, t \in VoicingTypes}
    /\ op = "none"
    /\ arg = [inversions |-> TRUE, octaveRange |-> <<3, 5>>]
    /\ result = [threw |-> FALSE, voicings |-> <<>>]
    /\ ModuleLoaded

\* getChordVoicings on the symbol held in romans, the options kept in arg.
GetChordVoicings ==
    \E inversions \in BOOLEAN, octaveRange \in OctaveRanges :
        /\ op' = "getChordVoicings"
        /\ arg' = [inversions |-> inversions, octaveRange |-> octaveRange]
        /\ result' = getChordVoicings(romans[1], inversions, octaveRange)
        /\ UNCHANGED <<key, romans, circleTable, handedOut>>

NextVoicings == GetChordVoicings

SpecVoicings == InitVoicings /\ [][NextVoicings]_vars

-----------------------------------------------------------------------------
(* Circle rotation: rotateCircle of lib/theory-core/circle.ts and the drag  *)
(* handlers of the circle page that set the key to what it returns.        *)

CIRCLE_OF_FIFTHS_ORDER ==
    << <<"C">>, <<"G">>, <<"D">>, <<"A">>, <<"E">>, <<"B">>, <<"F","#">>, <<"C","#">>,
       <<"G","#">>, <<"D","#">>, <<"A","#">>,
       <<"F">>, <<"B","b">>, <<"E","b">>, <<"A","b">>, <<"D","b">>, <<"G","b">>,
       <<"C","b">> >>

MODE_ORDER ==
    <<"lydian", "major", "mixolydian", "dorian", "aeolian", "phrygian", "locrian">>

\* Array.prototype.indexOf, counted from 0; -1 when the value is absent.
IndexOf(array, value) ==
    IF \E i \in 1..Len(array) : array[i] = value
    THEN MinOf({i \in 1..Len(array) : array[i] = value}) - 1
    ELSE -1

\* The new index of a rotation by tonic: clockwise adds one.
NewTonicIndex(index, direction, length) ==
    IF direction = "clockwise"
    THEN (index + 1) % length
    ELSE (index - 1 + length) % length

\* The new index of a rotation by mode: clockwise is brighter, one back.
NewModeIndex(index, direction, length) ==
    IF direction = "clockwise"
    THEN (index - 1 + length) % length
    ELSE (index + 1) % length

rotateCircle(currentKey, direction, rotateBy) ==
    IF rotateBy = "tonic"
    THEN [currentKey EXCEPT
            !.tonic = CIRCLE_OF_FIFTHS_ORDER[
                        NewTonicIndex(IndexOf(CIRCLE_OF_FIFTHS_ORDER, currentKey.tonic),
                                      direction, Len(CIRCLE_OF_FIFTHS_ORDER)) + 1]]
    ELSE [currentKey EXCEPT
            !.mode = MODE_ORDER[
                       NewModeIndex(IndexOf(MODE_ORDER, currentKey.mode),
                                    direction, Len(MODE_ORDER)) + 1]]

\* direction === 'up' ? 'clockwise' : 'counterclockwise'
RotateDirection(direction) ==
    IF direction = "up" THEN "clockwise" ELSE "counterclockwise"

-----------------------------------------------------------------------------
(* Specification of the circle page: the key is rotated by dragging the    *)
(* tonic table or the mode table.  result keeps the last two rotations,     *)
(* each with the key it started from.                                       *)

DragDirections == {"up", "down"}

\* The rotations remembered: the one before, then the new one.
Remember(rotations, rotation) ==
    IF Len(rotations) = 0 THEN <<rotation>>
    ELSE <<rotations[Len(rotations)], rotation>>

InitRotate ==
    /\ key \in KeysOn({CIRCLE_OF_FIFTHS_ORDER[i] : i \in 1..Len(CIRCLE_OF_FIFTHS_ORDER)})
    /\ romans = <<>>
    /\ op = "none"
    /\ arg = "none"
    /\ result = <<>>
    /\ ModuleLoaded

HandleTonicDragRotate ==
    \E direction \in DragDirections :
        /\ op' = "handleTonicDragRotate"
        /\ arg' = direction
        /\ key' = rotateCircle(key, RotateDirection(direction), "tonic")
        /\ result' = Remember(result, [from |-> key, rotateBy |-> "tonic",
                                       direction |-> RotateDirection(direction)])
        /\ UNCHANGED <<romans, circleTable, handedOut>>

HandleModeDragRotate ==
    \E direction \in DragDirections :
        /\ op' = "handleModeDragRotate"
        /\ arg' = direction
        /\ key' = rotateCircle(key, RotateDirection(direction), "mode")
        /\ result' = Remember(result, [from |-> key, rotateBy |-> "mode",
                                       direction |-> RotateDirection(direction)])
        /\ UNCHANGED <<romans, circleTable, handedOut>>

NextRotate == HandleTonicDragRotate \/ HandleModeDragRotate

SpecRotate == InitRotate /\ [][NextRotate]_vars

-----------------------------------------------------------------------------
(* Theory panel: the block held by TheoryPanel and its handlers.  key is    *)
(* block.key; result holds the rest of the block (role,                     *)
(* palette.includeSevenths, progression); romans is the list                *)
(* block.progression.map(p => p.roman) that useTheory derives on every      *)
(* render.                                                                  *)

\* The progression entry handleAddToProgression appends: the origin is
\* classifyChord(roman).origin under the block's key.
ProgressionEntry(roman, k) ==
    [roman |-> roman, bars |-> 1, origin |-> classifyChord(roman, k).origin]

\* prev.progression.filter((_, idx) => idx !== index), index from 0.
RemoveAt(progression, index) ==
    [i \in 1..(Len(progression) - 1) |->
        IF i <= index THEN progression[i] ELSE progression[i + 1]]

\* The progression of a key change that keeps the chords.
KeepProgression(progression) == progression

\* progression: [] on a change of tonic or mode.
ClearProgression(progression) == <<>>

\* block.progression.map((p) => p.roman)
ProgressionRomans(progression) == [i \in 1..Len(progression) |-> progression[i].roman]

-----------------------------------------------------------------------------
(* Specification of the theory panel *)

\* Three of the twelve tonics of the key select, three of its eight modes,
\* two of the six sections.
PanelTonics == {<<"C">>, <<"F","#">>, <<"A">>}

PanelModes == {"major", "minor", "dorian"}

PanelRoles == {"Verse", "Chorus"}

\* Numerals handed to onAddToProgression: a diatonic one, two altered or
\* out-of-key ones, a secondary dominant.
PanelRomans == { <<"I">>, <<"b","V","I">>, <<"V","I","I">>, <<"V","/","V">> }

InitPanel ==
    /\ key \in {k \in KeysOn(PanelTonics) :
                  k.mode \in PanelModes /\ k.minorVariant = "none"}
    /\ romans = <<>>
    /\ op = "none"
    /\ arg = 0
    /\ result \in {[role |-> r, includeSevenths |-> s, progression |-> <<>>] :
                     r \in PanelRoles, s \in BOOLEAN}
    /\ ModuleLoaded

HandleAddToProgression ==
    \E roman \in PanelRomans :
        /\ Len(result.progression) < MaxLen
        /\ op' = "handleAddToProgression"
        /\ result' = [result EXCEPT
                        !.progression = Append(@, ProgressionEntry(roman, key))]
        /\ romans' = ProgressionRomans(result'.progression)
        /\ UNCHANGED <<key, arg, circleTable, handedOut>>

HandleRemoveChord ==
    \E index \in 0..(Len(result.progression) - 1) :
        /\ op' = "handleRemoveChord"
        /\ result' = [result EXCEPT !.progression = RemoveAt(@, index)]
        /\ romans' = ProgressionRomans(result'.progression)
        /\ UNCHANGED <<key, arg, circleTable, handedOut>>

HandleKeyChange ==
    \E tonic \in PanelTonics :
        /\ op' = "handleKeyChange"
        /\ key' = [key EXCEPT !.tonic = tonic]
        /\ result' = [result EXCEPT !.progression = ClearProgression(@)]
        /\ romans' = ProgressionRomans(result'.progression)
        /\ UNCHANGED <<arg, circleTable, handedOut>>

HandleModeChange ==
    \E mode \in PanelModes :
        /\ op' = "handleModeChange"
        /\ key' = [key EXCEPT !.mode = mode]
        /\ result' = [result EXCEPT !.progression = ClearProgression(@)]
        /\ romans' = ProgressionRomans(result'.progression)
        /\ UNCHANGED <<arg, circleTable, handedOut>>

HandleToggleSevenths ==
    /\ op' = "handleToggleSevenths"
    /\ result' = [result EXCEPT !.includeSevenths = ~@]
    /\ UNCHANGED <<key, romans, arg, circleTable, handedOut>>

HandleRoleChange ==
    \E role \in PanelRoles :
        /\ op' = "handleRoleChange"
        /\ result' = [result EXCEPT !.role = role]
        /\ UNCHANGED <<key, romans, arg, circleTable, handedOut>>

NextPanel ==
    \/ HandleAddToProgression
    \/ HandleRemoveChord
    \/ HandleKeyChange
    \/ HandleModeChange
    \/ HandleToggleSevenths
    \/ HandleRoleChange

SpecPanel == InitPanel /\ [][NextPanel]_vars

-----------------------------------------------------------------------------
(* Properties *)

Range(s) == {s[i] : i \in 1..Len(s)}

Parsable(roman) == ~parseRoman(roman).isNull

\* The scale degree of a numeral as the documentation counts it:
\* I = 1 ... VII = 7, whatever the case, the accidental and the suffix.
ScaleDegree(roman) == StepOf(TokenizeRoman(roman).roman) + 1

\* The documented functional label: D for a secondary chord, else by
\* scale degree; a numeral that does not parse is labelled T.
DocumentedLabel(roman) ==
    IF Includes(roman, "/") THEN "D"
    ELSE IF ~Parsable(roman) THEN "T"
    ELSE CASE ScaleDegree(roman) \in {1, 3, 6} -> "T"
           [] ScaleDegree(roman) \in {2, 4} -> "SD"
           [] ScaleDegree(roman) \in {5, 7} -> "D"

\* C1: labelFunction returns D for every numeral holding "/", and for every
\* other parsable numeral T on scale degrees 1, 3, 6, SD on 2, 4 and D on
\* 5, 7 (I = 1 ... VII = 7), in every mode.
C1_LabelByScaleDegree ==
    op = "labelFunction" =>
        LET roman == romans[arg]
        IN  (Includes(roman, "/") \/ Parsable(roman)) => result = DocumentedLabel(roman)

LastThreeAre(a, b, c) ==
    /\ Len(romans) >= 3
    /\ romans[Len(romans) - 2] = a
    /\ romans[Len(romans) - 1] = b
    /\ romans[Len(romans)] = c

LastTwoAre(a, b) ==
    /\ Len(romans) >= 2
    /\ romans[Len(romans) - 1] = a
    /\ romans[Len(romans)] = b

\* C2: whenever the last three chords are exactly ii, V, I, detectCadences
\* returns both the Perfect Authentic Cadence hint and the ii-V-I hint.
C2_TwoFiveOneHints ==
    (op = "detectCadences" /\ LastThreeAre(<<"i","i">>, <<"V">>, <<"I">>)) =>
        (HintPAC \in Range(result) /\ HintTwoFiveOne \in Range(result))

\* C3 as stated: a progression ending exactly V, I or exactly v, i yields
\* the Perfect Authentic Cadence hint.
C3_PerfectAuthentic_Original ==
    (op = "detectCadences"
       /\ (LastTwoAre(<<"V">>, <<"I">>) \/ LastTwoAre(<<"v">>, <<"i">>))) =>
        HintPAC \in Range(result)

\* C3, amended: a progression of at least two chords ending exactly V, I
\* or exactly V, i yields the Perfect Authentic Cadence hint.
C3_PerfectAuthentic ==
    (op = "detectCadences"
       /\ (LastTwoAre(<<"V">>, <<"I">>) \/ LastTwoAre(<<"V">>, <<"i">>))) =>
        HintPAC \in Range(result)

C3_Witness ==
    /\ op = "detectCadences"
    /\ Len(romans) = 3
    /\ LastTwoAre(<<"V">>, <<"i">>)
    /\ key.mode = "minor"
    /\ result = <<HintPAC>>

\* The tension the documentation gives chord i (1-based) of rs, in
\* sixtieths: base by documented label, the five additive terms, and the
\* distance term on the scale degree 1..7.
DocumentedTension(rs, i, k) ==
    LET roman == rs[i]
        func == DocumentedLabel(roman)
        base == CASE func = "T" -> 6 [] func = "SD" -> 24 [] func = "D" -> 42
        a == IF Includes(roman, "V") \/ Includes(roman, "v") THEN 12 ELSE 0
        b == IF Includes(roman, "/") THEN 18 ELSE 0
        c == IF Includes(roman, "b") \/ Includes(roman, "#") THEN 12 ELSE 0
        d == IF Includes(roman, "°") \/ Includes(roman, "ø") \/ Includes(roman, "+")
             THEN 9 ELSE 0
        e == IF func = "D" /\ i < Len(rs) /\ DocumentedLabel(rs[i + 1]) = "T"
             THEN 9 ELSE 0
        f == IF ~Parsable(roman) THEN 0
             ELSE IF 10 * Abs(ScaleDegree(roman) - 1) < 18
                  THEN 10 * Abs(ScaleDegree(roman) - 1) ELSE 18
        sum == base + a + b + c + d + e + f
    IN  IF sum < 60 THEN sum ELSE 60

\* C4: the tension at every index i equals min(1, base + a + b + c + d + e
\* + f) with base by the chord's function and f = min(|degree - 1| / 6, 0.3)
\* on the scale degree 1..7.
C4_TensionFormula ==
    op = "tensionCurve" =>
        \A i \in 1..Len(romans) : result[i].value = DocumentedTension(romans, i, key)

\* C5: tensionCurve returns one point per chord, point i at position i
\* (counted from 0), every value within [0, 1].
C5_TensionPoints ==
    op = "tensionCurve" =>
        /\ Len(result) = Len(romans)
        /\ \A i \in 1..Len(romans) :
              /\ result[i].bar = i - 1
              /\ 0 <= result[i].value
              /\ result[i].value <= TensionOne

\* A curve over a chord that does not parse and a secondary dominant whose
\* terms sum beyond 1 and are cut to 1.
C5_Witness ==
    /\ op = "tensionCurve"
    /\ Len(romans) = 3
    /\ \E i \in 1..3 : ~Parsable(romans[i]) /\ ~Includes(romans[i], "/")
    /\ \E i \in 1..3 : Includes(romans[i], "/") /\ result[i].value = TensionOne

\* A numeral the data model calls well formed: one that parseRoman accepts,
\* or two of them around a "/" (a chord and its secondary target).
ValidNumeral(roman) ==
    \/ Parsable(roman)
    \/ \E p \in 1..Len(roman) :
          /\ roman[p] = "/"
          /\ Parsable(SubSeq(roman, 1, p - 1))
          /\ Parsable(SubSeq(roman, p + 1, Len(roman)))

HasAccidental(roman) == Len(TokenizeRoman(roman).acc) > 0

\* The origin of the first rule that matches, a numeral matching a list
\* when it is one of the list's entries.
FirstRuleByMembership(roman, k) ==
    IF Includes(roman, "/") THEN "secondary"
    ELSE IF roman \in getDiatonicRomans(k) THEN "diatonic"
    ELSE IF roman \in Range(BORROWED_IN_MAJOR) /\ k.mode = "major" THEN "borrowed"
    ELSE IF roman \in Range(mediantPatterns) THEN "chromatic-mediant"
    ELSE IF HasAccidental(roman) THEN "borrowed"
    ELSE "diatonic"

\* The origin of the first rule that matches, a numeral matching a list
\* when it starts with one of the list's entries.
FirstRuleByPrefix(roman, k) ==
    IF Includes(roman, "/") THEN "secondary"
    ELSE IF roman \in getDiatonicRomans(k) THEN "diatonic"
    ELSE IF (\E e \in Range(BORROWED_IN_MAJOR) : StartsWith(roman, e)) /\ k.mode = "major"
         THEN "borrowed"
    ELSE IF \E e \in Range(mediantPatterns) : StartsWith(roman, e) THEN "chromatic-mediant"
    ELSE IF HasAccidental(roman) THEN "borrowed"
    ELSE "diatonic"

C7_Unparsable_Original ==
    (op = "classify" /\ ~Parsable(romans[arg])) =>
        (~result.threw /\ result.origin = "custom" /\ result.quality = Unknown)

\* C7, amended: every string that cannot be parsed and holds no "/" is
\* classified custom with quality unknown, and classify does not throw.
C7_Unparsable ==
    (op = "classify" /\ ~Parsable(romans[arg]) /\ ~Includes(romans[arg], "/")) =>
        (~result.threw /\ result.origin = "custom" /\ result.quality = Unknown)

C7_Witness ==
    /\ op = "classify"
    /\ romans[arg] = <<"I","d","i","m">>
    /\ ~Parsable(romans[arg])
    /\ result = Classification("custom", Unknown)

\* C8: for every well-formed numeral and every key (eight modes, each minor
\* variant) classify returns one of the five origins and does not throw.
C8_ClassifierTotal ==
    (op = "classify" /\ ValidNumeral(romans[arg])) =>
        (~result.threw /\ result.origin \in Origins)

\* A sharpened fourth in a locrian key takes the accidental rule.
C8_Witness ==
    /\ op = "classify"
    /\ romans[arg] = <<"#","I","V">>
    /\ key.mode = "locrian"
    /\ ValidNumeral(romans[arg])
    /\ result.origin = "borrowed"

\* C9: for every tonic and every list of numerals of the key's diatonic
\* set, absoluteToRoman(tonic, romanToAbsolute(tonic, romans,
\* "key-signature")) is the original list, element for element.
C9_RoundTrip ==
    (op = "roundTrip" /\ Range(romans) \subseteq getDiatonicRomans(key)) =>
        result = romans

\* C10: romanToAbsolute returns as many chords as numerals, chord i being
\* what the numeral i alone converts to under the same tonic and policy;
\* replacing any one entry by a malformed numeral leaves the length and
\* every other chord as they were.
C10_ElementwiseConversion ==
    op = "romansToAbsolute" =>
        /\ Len(result) = Len(romans)
        /\ \A i \in 1..Len(romans) :
              /\ <<result[i]>> = romansToAbsolute(key.tonic, <<romans[i]>>, arg)
              /\ \A m \in Malformed :
                    LET other == romansToAbsolute(key.tonic, [romans EXCEPT ![i] = m], arg)
                    IN  /\ Len(other) = Len(romans)
                        /\ \A j \in 1..Len(romans) : j # i => other[j] = result[j]

\* A malformed entry between two numerals that convert.
C10_Witness ==
    /\ op = "romansToAbsolute"
    /\ key.tonic = <<"E","b">>
    /\ romans = << <<"i","i">>, <<"V","/","V">>, <<"V","7">> >>
    /\ result = << <<"F">>, <<>>, <<"B","b","7">> >>

\* The root of a returned chord name: its letter and accidentals.
RootOf(chord) == TokenizeChord(chord).note

\* C11: under policy flat every chord root romanToAbsolute returns is
\* spelled without a sharp, and under policy sharp every root is spelled
\* without a flat.
C11_PolicySpelling ==
    op = "romansToAbsolute" =>
        \A i \in 1..Len(result) :
            /\ arg = "flat" => ~Includes(RootOf(result[i]), "#")
            /\ arg = "sharp" => ~Includes(RootOf(result[i]), "b")

\* C12: for every major key (every tonic that is a note),
\* buildPalette(key, {sevenths: false}) returns exactly the seven roman
\* numerals I, ii, iii, IV, V, vi, vii° in that order.
C12_MajorPalette ==
    (op = "buildPalette" /\ key.mode = "major" /\ arg = FALSE
       /\ ~NoteGet(key.tonic).empty) =>
        result = << <<"I">>, <<"i","i">>, <<"i","i","i">>, <<"I","V">>, <<"V">>,
                    <<"v","i">>, <<"v","i","i","°">> >>

\* The pivot set the documentation gives two keys: relative keys, parallel
\* keys, then the interval between the tonics; empty when none applies.
DocumentedPivotSet(fromKey, toKey) ==
    IF isRelativeKey(fromKey, toKey) THEN RelativePivots
    ELSE IF fromKey.tonic = toKey.tonic /\ fromKey.mode # toKey.mode THEN ParallelPivots
    ELSE IntervalPivots(IntervalDistance(fromKey.tonic, toKey.tonic))

SameKey(k1, k2) == k1.tonic = k2.tonic /\ k1.mode = k2.mode

DocumentedNumeral(sourceTonic, targetTonic) ==
    LET interval == IntervalDistance(sourceTonic, targetTonic)
    IN  IF romanMap(interval) = <<>> THEN <<"I">> ELSE romanMap(interval)

\* What C14 says of a plan between keys that differ with no pivot set.
IsSecondaryPlan(plan, fromKey, toKey) ==
    /\ plan.type = "secondary"
    /\ plan.chords = << <<"V","/">> \o DocumentedNumeral(fromKey.tonic, toKey.tonic) >>

IsDirectPlan(plan) == plan.type = "direct" /\ plan.chords = <<>>

SuggestionRow(empty, label, major) ==
    IF empty THEN SuggestStart(major) ELSE SuggestAfter(label, major)

PitchClassOf(name) ==
    LET n == NoteGet(name)
    IN  (SEMI[n.step + 1] + n.alt + 120) % 12

\* slotOf of a pitch-class spelling.
slotOf(name) == getNotePosition(name)

\* C16: for all recognised spellings a and b, slotOf(a) = slotOf(b) exactly
\* when a and b are the same pitch class; F# and Gb share a slot, and the
\* twelve pitch classes occupy twelve distinct slots in 0..11. This is to
\* hold of both copies of the circle module; slotOf(a) is the position of
\* a in its major key, the mode of no offset.
C16_SlotIffEnharmonic ==
    (key.tonic \in RecognisedSpellings /\ key.mode = "major") =>
        /\ op = "getCirclePosition" =>
              /\ result \in 0..11
              /\ \A b \in RecognisedSpellings :
                    (getCirclePosition(b, "major") = result)
                       <=> (PitchClassOf(b) = PitchClassOf(key.tonic))
        /\ op = "getCirclePositionByName" =>
              /\ result \in 0..11
              /\ \A b \in RecognisedSpellings :
                    (getCirclePositionByName(b, "major") = result)
                       <=> (PitchClassOf(b) = PitchClassOf(key.tonic))

\* C16 of the copy that compares chromas, alone.
SlotIffEnharmonicByChroma ==
    (op = "getCirclePosition" /\ key.tonic \in RecognisedSpellings
       /\ key.mode = "major") =>
        /\ \A b \in RecognisedSpellings :
              (slotOf(b) = result) <=> (PitchClassOf(b) = PitchClassOf(key.tonic))
        /\ {slotOf(b) : b \in RecognisedSpellings} = 0..11

\* The offsets of the modes, in fifths, as documented.
DocumentedOffset(mode) ==
    CASE mode = "lydian" -> 1
      [] mode = "major" -> 0
      [] mode = "mixolydian" -> -1
      [] mode = "dorian" -> -2
      [] mode \in {"minor", "aeolian"} -> -3
      [] mode = "phrygian" -> -4
      [] mode = "locrian" -> -5

\* C17: for every tonic and every mode, slotOf(tonic, mode) is an integer in
\* 0..11 and equals (slotOf(tonic) + offset(mode)) modulo 12, with offsets
\* lydian +1, major 0, mixolydian -1, dorian -2, minor and aeolian -3,
\* phrygian -4, locrian -5.
C17_ModeOffset ==
    op = "getCirclePosition" =>
        /\ result \in 0..11
        /\ result = (slotOf(key.tonic) + DocumentedOffset(key.mode)) % 12

\* F locrian: slot 0 less five fifths wraps to slot 7.
C17_Witness ==
    /\ op = "getCirclePosition"
    /\ key.tonic = <<"F">>
    /\ key.mode = "locrian"
    /\ result = 7

\* C18: slotOf applied to an unrecognised pitch-class spelling returns slot
\* 0 and never raises, and slotOf(tonic, mode) with such a tonic likewise
\* returns a slot in 0..11 without raising.
C18_UnrecognisedSlotZero ==
    (op = "getCirclePosition" /\ NoteGet(key.tonic).empty) =>
        /\ slotOf(key.tonic) = 0
        /\ result \in 0..11
        /\ result = (DocumentedOffset(key.mode) + 12) % 12

\* The spelling H in a dorian key: slot 0 less two fifths.
C18_Witness ==
    /\ op = "getCirclePosition"
    /\ key.tonic = <<"H">>
    /\ key.mode = "dorian"
    /\ result = 10

\* The seven diatonic modes: a key whose mode is minor and whose variant
\* is harmonic or melodic is none of them.
IsDiatonicMode(k) ==
    k.mode = "minor" => k.minorVariant \in {"none", "natural"}

QualityCount(ring, q) == Cardinality({d \in 1..Len(ring) : ring[d].quality = q})

-----------------------------------------------------------------------------
\* C20: every operation is deterministic and stateless.  Whatever calls and
\* caller writes came before, the note table is the one the module was
\* loaded with, getCirclePosition returns what it returns on the freshly
\* loaded module for the same tonic and mode, getCircleOfFifthsNotes
\* returns the twelve notes of the table, and no step changes the key or
\* the progression it was called with.
TableAsLoaded == circleTable = CIRCLE_OF_FIFTHS_NOTES

SameOutputAsFirstCall ==
    /\ op = "getCirclePosition" =>
          result = getCirclePosition(key.tonic, key.mode)
    /\ op = "getCircleOfFifthsNotes" =>
          result = CIRCLE_OF_FIFTHS_NOTES

ArgumentsKept == key' = key /\ romans' = romans

-----------------------------------------------------------------------------
\* The chord symbol the numeral on degree k of the major scale on the tonic
\* stands for: the scale note moved by the sign, "m" for a lowercase
\* numeral, then the extension.  Roots are compared as pitch classes.
IsChordOnDegree(chord, tonic, k, alt, quality, extension) ==
    /\ NoteChroma(RootOf(chord)) = NoteChroma(TransposeNote(NoteGet(tonic), k, alt))
    /\ TokenizeChord(chord).chordType = quality \o extension

SignAlt(a) == IF a = <<"b">> THEN -1 ELSE IF a = <<"#">> THEN 1 ELSE 0

\* C21: for every tonic and every numeral I..VII with an optional b or #
\* and an extension, extendedRomanToAbsolute returns the chord rooted on
\* that degree of the tonic's major scale (moved a semitone by the sign),
\* with "m" for a lowercase numeral and the extension appended; a numeral
\* outside I..VII throws.
C21_ExtendedRomanToAbsolute ==
    (op = "extendedRomanToAbsolute" /\ ~NoteGet(key.tonic).empty) =>
        /\ \A a \in ExtendedAccidentals, k \in 1..7, x \in ExtendedSuffixes :
              /\ romans[1] = a \o NAMES[k] \o x =>
                    /\ ~result.threw
                    /\ IsChordOnDegree(result.chord, key.tonic, k, SignAlt(a), <<>>, x)
              /\ romans[1] = a \o NAMES_MINOR[k] \o x =>
                    /\ ~result.threw
                    /\ IsChordOnDegree(result.chord, key.tonic, k, SignAlt(a), <<"m">>, x)
        /\ \A a \in ExtendedAccidentals, x \in ExtendedSuffixes,
              n \in {<<"V","I","I","I">>, <<"I","I","I","I">>, <<"X">>, <<>>} :
              romans[1] = a \o n \o x => result.threw

-----------------------------------------------------------------------------
\* The lower bound of the octave range is above its upper bound.
InvalidOctaveRange(octaveRange) == octaveRange[1] > octaveRange[2]

\* The symbol names no chord: its root is no note or its type is unknown.
InvalidChordSymbol(symbol) ==
    \/ NoteGet(TokenizeChord(symbol).note).empty
    \/ TokenizeChord(symbol).chordType \notin DOMAIN CHORD_TYPES

\* C22: getChordVoicings throws when the octave range is invalid (lower
\* bound above upper bound) and when the chord symbol is invalid.
C22_VoicingsThrow ==
    op = "getChordVoicings" =>
        ((InvalidOctaveRange(arg.octaveRange) \/ InvalidChordSymbol(romans[1]))
            => result.threw)

\* The pitch-class part of a voiced note: the name without its octave.
VoicedPitchClass(voiced) == TokenizeChord(voiced).note

\* Voicing k (from 0) is the chord's notes rotated to start at note k.
IsRotation(voicing, notes, k) ==
    /\ Len(voicing.notes) = Len(notes)
    /\ \A j \in 1..Len(notes) :
          VoicedPitchClass(voicing.notes[j]) = notes[((k + j - 1) % Len(notes)) + 1]

\* C23 as stated: for every valid chord with n notes, inversions enabled
\* gives exactly n voicings, voicing k the notes rotated to start at note k,
\* and inversions disabled gives exactly the root position.
C23_VoicingCount_Original ==
    (op = "getChordVoicings" /\ ~InvalidChordSymbol(romans[1])) =>
        /\ ~result.threw
        /\ Len(result.voicings) =
              (IF arg.inversions THEN Len(ChordGet(romans[1]).notes) ELSE 1)
        /\ \A k \in 1..Len(result.voicings) :
              IsRotation(result.voicings[k], ChordGet(romans[1]).notes, k - 1)

\* C23: for every valid chord with n notes, inversions enabled gives
\* exactly n voicings when n is at least 3 and only the root position when
\* the chord has two notes; inversions disabled gives exactly the root
\* position; voicing k is the notes rotated to start at note k and has n
\* notes.
C23_VoicingCount ==
    (op = "getChordVoicings" /\ ~InvalidChordSymbol(romans[1])) =>
        /\ ~result.threw
        /\ Len(result.voicings) =
              (IF arg.inversions /\ Len(ChordGet(romans[1]).notes) >= 3
               THEN Len(ChordGet(romans[1]).notes) ELSE 1)
        /\ \A k \in 1..Len(result.voicings) :
              IsRotation(result.voicings[k], ChordGet(romans[1]).notes, k - 1)

\* The voicings of a two-note chord were asked for with inversions enabled.
C23_Witness ==
    /\ op = "getChordVoicings"
    /\ arg.inversions
    /\ ~result.threw
    /\ Len(ChordGet(romans[1]).notes) = 2
    /\ Len(result.voicings) = 1

-----------------------------------------------------------------------------
\* The last rotation made, and the one before it.
LastRotation == result[Len(result)]

\* The pitch class a perfect fifth above a note, and below it.
FifthUp(name) == (NoteChroma(name) + 7) % 12

FifthDown(name) == (NoteChroma(name) + 5) % 12

\* C24: rotating by tonic clockwise moves the tonic up a perfect fifth and
\* counterclockwise moves it down a perfect fifth, for every tonic of the
\* circle order.
C24_RotateByFifth ==
    op = "handleTonicDragRotate" =>
        /\ LastRotation.direction = "clockwise" =>
              NoteChroma(key.tonic) = FifthUp(LastRotation.from.tonic)
        /\ LastRotation.direction = "counterclockwise" =>
              NoteChroma(key.tonic) = FifthDown(LastRotation.from.tonic)

\* C28: a clockwise rotation followed by a counterclockwise rotation on
\* the same axis, and the reverse order, gives back the key the first
\* rotation started from; a rotation by tonic keeps the mode and the minor
\* variant, a rotation by mode keeps the tonic.
C28_RotateRoundTrip ==
    /\ (Len(result) = 2 /\ result[1].rotateBy = result[2].rotateBy
          /\ result[1].direction # result[2].direction)
          => key = result[1].from
    /\ op = "handleTonicDragRotate" =>
          /\ key.mode = LastRotation.from.mode
          /\ key.minorVariant = LastRotation.from.minorVariant
    /\ op = "handleModeDragRotate" => key.tonic = LastRotation.from.tonic

-----------------------------------------------------------------------------
\* The numeral's root lies a third from the tonic: it parses and stands on
\* scale degree 3 or 6 (the library's steps 2 and 5), altered or not.
RootAThirdAway(roman) ==
    /\ ~RomanNumeralGet(roman).empty
    /\ RomanNumeralGet(roman).step \in {2, 5}

\* C25: classify returns chromatic-mediant only for numerals whose root
\* lies a third away from the tonic (degree 3 or 6, possibly altered).
C25_MediantOnThirds ==
    (op = "classify" /\ ~result.threw /\ result.origin = "chromatic-mediant") =>
        RootAThirdAway(romans[arg])

-----------------------------------------------------------------------------
\* Two tonics are the same pitch class, however spelled.
EnharmonicTonics(t1, t2) ==
    /\ ~NoteGet(t1).empty
    /\ ~NoteGet(t2).empty
    /\ NoteChroma(t1) = NoteChroma(t2)

\* The keys that differ from k at most in the spelling of the tonic.
Respellings(k) ==
    {k2 \in TransitionKeys :
        /\ k2.mode = k.mode
        /\ k2.minorVariant = k.minorVariant
        /\ EnharmonicTonics(k2.tonic, k.tonic)}

\* C26: planTransition depends on the two tonics only through their pitch
\* classes: with either tonic respelled enharmonically the plan has the
\* same kind and the same chords, and two keys of the same mode whose
\* tonics are enharmonically equal give kind direct.
C26_EnharmonicTransition ==
    op = "planTransition" =>
        /\ \A k2 \in Respellings(key), t2 \in Respellings(arg) :
              /\ planTransition(k2, t2).type = result.type
              /\ planTransition(k2, t2).chords = result.chords
        /\ (key.mode = arg.mode /\ EnharmonicTonics(key.tonic, arg.tonic)) =>
              result.type = "direct"

\* The plan offers the relative pivot set: kind pivot with vi, IV.
OffersRelativePivots(plan) ==
    /\ plan.type = "pivot"
    /\ plan.chords = << <<"v","i">>, <<"I","V">> >>

\* The minor key's tonic lies a minor third below the major key's tonic.
MinorThirdBelow(minorTonic, majorTonic) == SemitonesUp(minorTonic, majorTonic) = 3

\* C27: whenever planTransition treats a major key and a minor key as
\* relative and offers the pivot set vi, IV, ii, the minor key's tonic lies
\* a minor third below the major key's tonic.
C27_RelativeKeysShareScale ==
    (op = "planTransition" /\ OffersRelativePivots(result)) =>
        \/ /\ key.mode = "major" /\ arg.mode = "minor"
           /\ MinorThirdBelow(arg.tonic, key.tonic)
        \/ /\ key.mode = "minor" /\ arg.mode = "major"
           /\ MinorThirdBelow(key.tonic, arg.tonic)

-----------------------------------------------------------------------------
\* The parts of a degree numeral: its letters and what follows them.
NumeralLettersOf(roman) == ExtendedRomanMatch(roman).numeralPart

NumeralSuffixOf(roman) == ExtendedRomanMatch(roman).extension

IsUpperNumeral(roman) == \A i \in 1..Len(NumeralLettersOf(roman)) :
                            NumeralLettersOf(roman)[i] \in {"I", "V"}

IsLowerNumeral(roman) == \A i \in 1..Len(NumeralLettersOf(roman)) :
                            NumeralLettersOf(roman)[i] \in {"i", "v"}

\* The numeral agrees with the triad quality: uppercase without suffix
\* exactly for a major triad, lowercase without suffix exactly for a minor
\* triad, the degree sign exactly for a diminished triad.
NumeralAgrees(roman, quality) ==
    /\ (IsUpperNumeral(roman) /\ NumeralSuffixOf(roman) = <<>>) <=> quality = "major"
    /\ (IsLowerNumeral(roman) /\ NumeralSuffixOf(roman) = <<>>) <=> quality = "minor"
    /\ Includes(NumeralSuffixOf(roman), "°") <=> quality = "diminished"

\* C29: for every key, harmonic and melodic minor included, the roman
\* numeral shown on each scale degree agrees with the triad quality
\* computed for that degree from the key's scale.
C29_NumeralMatchesTriad ==
    op = "getCircleOfFifthsData" =>
        /\ Len(result.degrees) = Len(result.chordQualities)
        /\ \A d \in 1..Len(result.degrees) :
              NumeralAgrees(result.degrees[d].roman, result.chordQualities[d].quality)

-----------------------------------------------------------------------------
\* Every chord of the progression carries the origin classify gives its
\* numeral under the block's current key.
OriginsCurrent ==
    \A i \in 1..Len(result.progression) :
        result.progression[i].origin
          = classifyChord(result.progression[i].roman, key).origin

\* A change of tonic or mode empties the progression; the other handlers
\* leave the key as it was.
KeyChangeClears ==
    /\ op' \in {"handleKeyChange", "handleModeChange"} => result'.progression = <<>>
    /\ op' \notin {"handleKeyChange", "handleModeChange"} => key' = key

\* C30: in the theory panel, starting from an empty progression, after any
\* sequence of handlers every chord carries the origin classify assigns its
\* numeral under the current key; changing tonic or mode empties the
\* progression and the other handlers leave the key unchanged.
C30_PanelOrigins ==
    /\ [](OriginsCurrent)
    /\ [][KeyChangeClears]_vars

\* In a dorian key a chord was removed from a progression that still holds
\* bVI, tagged chromatic-mediant, and at least one other chord.
C30_Witness ==
    /\ op = "handleRemoveChord"
    /\ key.mode = "dorian"
    /\ Len(result.progression) >= 2
    /\ \E i \in 1..Len(result.progression) :
          /\ result.progression[i].roman = <<"b","V","I">>
          /\ result.progression[i].origin = "chromatic-mediant"

====
